---- MODULE Spec2Model ----
(***************************************************************************)
(* A model of the Osyris (glisp) interpreter: the evaluator of             *)
(* src/src/eval.rs, the standard operators of src/src/stdlib.rs and the    *)
(* top-level loop of src/src/bin/osyris.rs.                                *)
(*                                                                         *)
(* The interpreter's memory is the record                                  *)
(* m = [frames, heap, held, log, ncalls, out]:                             *)
(*   frames  the scope frames (Scope: parent link + map), by frame id      *)
(*   heap    the Rc<RefCell<..>> cells of lists and dicts, by handle       *)
(*   held    the values held by the Vec<ValRef> argument vectors of the    *)
(*           Calls in progress (they count as Rc holders)                  *)
(*   log     the order in which the children of each Call were evaluated   *)
(*           and its callee applied: <<call id, child index>>, index 0 the *)
(*           head, -1 the application                                      *)
(*   ncalls  the number of Calls entered so far (the next call id)         *)
(*   out     the chunks written to the stdout port                         *)
(* Numbers are f64 in the source; the model uses small integers and NaN    *)
(* (the quotient 0/0), which `/` yields and `==` tells from every number.  *)
(***************************************************************************)
EXTENDS Integers, Sequences, FiniteSets, TLC

VARIABLES mem, cur, pending, last, status, trail, print_ast

vars == <<mem, cur, pending, last, status, trail, print_ast>>

(***************************************************************************)
(* Bounds of the model.                                                    *)
(***************************************************************************)
\* top-level expressions evaluated in one run
MaxSteps == 4
\* the leading expressions of a run that may be lookups by call
MaxLookupSteps == 2
\* the leading expressions of a run that may be comparisons
MaxEqSteps == 1
\* list-remove and list-insert expressions evaluated in one run
MaxSpliceSteps == 1
\* match expressions evaluated in one run
MaxMatchSteps == 1
\* source texts parsed in one run
MaxParseSteps == 2
\* operators on a held or unheld container evaluated in one run
MaxRefSteps == 1
\* block calls evaluated in one run
MaxBlockSteps == 2
\* error calls evaluated in one run
MaxErrorSteps == 1

(***************************************************************************)
(* Values (ValRef) and expressions (ast::Expression).                      *)
(***************************************************************************)
NoneV == [t |-> "none"]
BoolV(b) == [t |-> "bool", b |-> b]
NumV(n) == [t |-> "num", n |-> n]
NaNV == [t |-> "num", n |-> 0, nan |-> TRUE]
IsNaN(v) == v.t = "num" /\ "nan" \in DOMAIN v
StrV(s) == [t |-> "str", s |-> s]
BlockV(body) == [t |-> "block", body |-> body]
ListV(h) == [t |-> "list", h |-> h]
DictV(h) == [t |-> "dict", h |-> h]
FuncV(f) == [t |-> "func", f |-> f]
LazyV(f) == [t |-> "lazy", f |-> f]
ProtectedLazyV(f) == [t |-> "plazy", f |-> f]
LambdaV(args, body, scope) ==
    [t |-> "lambda", args |-> args, body |-> body, scope |-> scope]

StrE(s) == [k |-> "str", s |-> s]
NumE(n) == [k |-> "num", n |-> n]
NameE(s) == [k |-> "name", s |-> s]
CallE(ch) == [k |-> "call", ch |-> ch]
QuoteE(ch) == [k |-> "quote", ch |-> ch]

(***************************************************************************)
(* Results: Result<(ValRef, Scope), StackTrace>.  An error carries the     *)
(* StackTrace's message value and its trace, the locations of the Calls    *)
(* it has unwound through (a Call's location is its call id); the memory   *)
(* keeps what was mutated through shared handles before the error.         *)
(***************************************************************************)
Ok(v, sc, m) ==
    [ok |-> TRUE, panic |-> FALSE, val |-> v, sc |-> sc, m |-> m, trace |-> <<>>]
Err(v, m) ==
    [ok |-> FALSE, panic |-> FALSE, val |-> v, sc |-> 0, m |-> m, trace |-> <<>>]
\* a Rust panic: the process aborts, no `try` sees it
Panic(m) ==
    [ok |-> FALSE, panic |-> TRUE, val |-> NoneV, sc |-> 0, m |-> m, trace |-> <<>>]

StackTrace_from_str(s) == StrV(s)

ErrNotEnoughArgs == StackTrace_from_str("Not enough arguments")
ErrTooManyArgs == StackTrace_from_str("Too many arguments")
ErrExpected(what) == StackTrace_from_str("Expected " \o what)
ErrNoVariable(name) == StackTrace_from_str("Variable '" \o name \o "' doesn't exist")

Tail2(args) == SubSeq(args, 3, Len(args))
Rest(args) == SubSeq(args, 2, Len(args))

(***************************************************************************)
(* Scope: a frame is [parent, map, live]; parent 0 is no parent.           *)
(***************************************************************************)
Frame(parent, map) == [parent |-> parent, map |-> map, live |-> TRUE]

EmptyMap == [k \in {} |-> NoneV]

MapPut(map, key, val) ==
    [k \in DOMAIN map \cup {key} |-> IF k = key THEN val ELSE map[k]]

MapDel(map, key) == [k \in DOMAIN map \ {key} |-> map[k]]

\* Scope::lookup: the current frame, then the parents
RECURSIVE Scope_lookup(_, _, _)
Scope_lookup(m, sc, name) ==
    IF name \in DOMAIN m.frames[sc].map
    THEN [found |-> TRUE, val |-> m.frames[sc].map[name]]
    ELSE IF m.frames[sc].parent # 0
         THEN Scope_lookup(m, m.frames[sc].parent, name)
         ELSE [found |-> FALSE, val |-> NoneV]

\* Scope::insert: always the frame passed
Scope_insert(m, sc, name, val) ==
    [m EXCEPT !.frames[sc].map = MapPut(@, name, val)]

Scope_has_shallow(m, sc, name) == name \in DOMAIN m.frames[sc].map

Scope_lookup_shallow(m, sc, name) ==
    IF name \in DOMAIN m.frames[sc].map
    THEN [found |-> TRUE, val |-> m.frames[sc].map[name]]
    ELSE [found |-> FALSE, val |-> NoneV]

\* removes the name from the frame passed, and from no other
Scope_maybe_inplace_erase(m, sc, name) ==
    [m EXCEPT !.frames[sc].map = MapDel(@, name)]

\* a new empty frame whose parent is sc; its id is the next free one
NewFrameId(m) == Len(m.frames) + 1

Scope_subscope(m, sc) ==
    [m EXCEPT !.frames = Append(@, Frame(sc, EmptyMap))]

(***************************************************************************)
(* Reference counts: Rc::strong_count of a list or dict cell is the number *)
(* of ValRef values that hold its handle: bindings of live frames,         *)
(* elements of heap cells, argument vectors of the Calls in progress.      *)
(***************************************************************************)
Holds(v, h) == v.t \in {"list", "dict"} /\ v.h = h

CountSeq(s, h) == Cardinality({i \in 1..Len(s) : Holds(s[i], h)})

CountMap(map, h) == Cardinality({k \in DOMAIN map : Holds(map[k], h)})

CellValues(c) ==
    IF c.kind = "list" THEN {c.items[i] : i \in 1..Len(c.items)}
    ELSE {c.map[k] : k \in DOMAIN c.map}

CountCell(c, h) ==
    IF c.kind = "list" THEN CountSeq(c.items, h) ELSE CountMap(c.map, h)

RECURSIVE SumTo(_, _)
SumTo(f, n) == IF n = 0 THEN 0 ELSE f[n] + SumTo(f, n - 1)

StrongCount(m, h) ==
    SumTo([f \in 1..Len(m.frames) |->
              IF m.frames[f].live THEN CountMap(m.frames[f].map, h) ELSE 0],
          Len(m.frames))
    + SumTo([c \in 1..Len(m.heap) |-> CountCell(m.heap[c], h)], Len(m.heap))
    + CountSeq(m.held, h)

NewHandle(m) == Len(m.heap) + 1

ListCell(items) == [kind |-> "list", items |-> items]
DictCell(map) == [kind |-> "dict", map |-> map]

Alloc(m, cell) == [m EXCEPT !.heap = Append(@, cell)]

\* a frame is kept by the lambdas that captured it and by its live children
FrameCaptured(m, f, v) ==
    LET cap(x) == x.t = "lambda" /\ x.scope = f
    IN \/ cap(v)
       \/ \E g \in 1..Len(m.frames) :
              /\ m.frames[g].live
              /\ g # f
              /\ \/ m.frames[g].parent = f
                 \/ \E k \in DOMAIN m.frames[g].map : cap(m.frames[g].map[k])
       \/ \E k \in DOMAIN m.frames[f].map : cap(m.frames[f].map[k])
       \/ \E c \in 1..Len(m.heap) : \E x \in CellValues(m.heap[c]) : cap(x)
       \/ \E i \in 1..Len(m.held) : cap(m.held[i])

\* the Rc of a call's frame is dropped when the call returns
ReleaseFrame(m, f, v) ==
    IF FrameCaptured(m, f, v) THEN m
    ELSE [m EXCEPT !.frames[f] = [parent |-> @.parent, map |-> EmptyMap, live |-> FALSE]]

(***************************************************************************)
(* Conversions of ValRef.                                                  *)
(***************************************************************************)
Digit(d) ==
    CASE d = 0 -> "0" [] d = 1 -> "1" [] d = 2 -> "2" [] d = 3 -> "3"
      [] d = 4 -> "4" [] d = 5 -> "5" [] d = 6 -> "6" [] d = 7 -> "7"
      [] d = 8 -> "8" [] OTHER -> "9"

RECURSIVE NumToStr(_)
NumToStr(n) ==
    IF n < 0 THEN "-" \o NumToStr(0 - n)
    ELSE IF n < 10 THEN Digit(n)
    ELSE NumToStr(n \div 10) \o Digit(n % 10)

\* impl fmt::Display for ValRef; m gives the elements of a list
RECURSIVE ValRef_display(_, _)
RECURSIVE DisplayItems(_, _, _)
DisplayItems(m, items, idx) ==
    IF idx > Len(items) THEN ""
    ELSE (IF idx # 1 THEN ", " ELSE "") \o ValRef_display(m, items[idx])
         \o DisplayItems(m, items, idx + 1)

ValRef_display(m, v) ==
    CASE v.t = "none" -> "None"
      [] v.t = "num" -> (IF IsNaN(v) THEN "NaN" ELSE NumToStr(v.n))
      [] v.t = "str" -> v.s
      [] v.t = "block" -> "(block)"
      [] v.t = "list" -> "[" \o DisplayItems(m, m.heap[v.h].items, 1) \o "]"
      [] v.t = "func" -> "(func)"
      [] v.t = "bool" -> (IF v.b THEN "true" ELSE "false")
      [] OTHER -> "(" \o v.t \o ")"

to_bool(v) == ~(v.t = "none" \/ (v.t = "bool" /\ ~v.b))

to_num(v) ==
    CASE v.t = "num" -> v.n
      [] v.t = "bool" -> (IF v.b THEN 1 ELSE 0)
      [] OTHER -> 0

(***************************************************************************)
(* The evaluator's entry points, used by the standard operators.           *)
(***************************************************************************)
RECURSIVE eval(_, _, _)
RECURSIVE eval_multiple(_, _, _)
RECURSIVE call(_, _, _, _)

(***************************************************************************)
(* Standard operators (stdlib.rs).  Each takes the evaluated argument      *)
(* list, the caller's scope and the memory.                                *)
(***************************************************************************)
PortWrite(m, v) == [m EXCEPT !.out = Append(@, ValRef_display(m, v))]

RECURSIVE print_args(_, _, _)
print_args(args, first, m) ==
    IF args = <<>> THEN m
    ELSE print_args(Tail(args), FALSE,
                    PortWrite(IF first THEN m ELSE PortWrite(m, StrV(" ")), args[1]))

lib_print(args, sc, m) ==
    LET stdout == Scope_lookup(m, sc, "stdout")
    IN IF ~stdout.found
       THEN Err(StackTrace_from_str("'print' expects a variable 'stdout' to be defined"), m)
       ELSE IF stdout.val.t # "port"
       THEN Err(StackTrace_from_str("'print' expects 'stdout' to be a port"), m)
       ELSE Ok(NoneV, sc, PortWrite(print_args(args, TRUE, m), StrV("\n")))

RECURSIVE SumNums(_)
SumNums(args) == IF args = <<>> THEN 0 ELSE to_num(args[1]) + SumNums(Tail(args))

lib_add(args, sc, m) == Ok(NumV(SumNums(args)), sc, m)

lib_sub(args, sc, m) ==
    IF args = <<>> THEN Ok(NumV(0), sc, m)
    ELSE IF Len(args) = 1 THEN Ok(NumV(0 - to_num(args[1])), sc, m)
    ELSE Ok(NumV(to_num(args[1]) - SumNums(Tail(args))), sc, m)

RECURSIVE MulNums(_)
MulNums(args) == IF args = <<>> THEN 1 ELSE to_num(args[1]) * MulNums(Tail(args))

lib_mul(args, sc, m) ==
    IF args = <<>> THEN Ok(NumV(0), sc, m) ELSE Ok(NumV(MulNums(args)), sc, m)

\* f64 division on the model's numbers: 0/0 and every quotient of NaN is
\* NaN; the programs of the model divide nothing else by zero and take no
\* inexact quotient
Quot(a, b) ==
    IF IsNaN(a) \/ IsNaN(b) \/ to_num(b) = 0 THEN NaNV ELSE NumV(to_num(a) \div to_num(b))

RECURSIVE DivNums(_, _)
DivNums(num, args) == IF args = <<>> THEN num ELSE DivNums(Quot(num, args[1]), Tail(args))

lib_div(args, sc, m) ==
    IF args = <<>> THEN Ok(NumV(0), sc, m)
    ELSE IF Len(args) = 1 THEN Ok(Quot(NumV(1), args[1]), sc, m)
    ELSE Ok(DivNums(args[1], Tail(args)), sc, m)

\* ValRef::equals: same variant and same contents; lists element by
\* element, dicts key by key; numbers as f64 compares them, NaN equal to
\* nothing
RECURSIVE ValRef_equals(_, _, _)
ValRef_equals(m, a, b) ==
    IF a.t # b.t THEN FALSE
    ELSE IF a.t = "num" THEN ~IsNaN(a) /\ ~IsNaN(b) /\ a.n = b.n
    ELSE IF a.t = "list"
    THEN LET x == m.heap[a.h].items
             y == m.heap[b.h].items
         IN Len(x) = Len(y) /\ \A i \in 1..Len(x) : ValRef_equals(m, x[i], y[i])
    ELSE IF a.t = "dict"
    THEN LET x == m.heap[a.h].map
             y == m.heap[b.h].map
         IN DOMAIN x = DOMAIN y /\ \A k \in DOMAIN x : ValRef_equals(m, x[k], y[k])
    ELSE a = b

\* lib_equals comparing each argument with the first only by variant
lib_equals_shallow(args, sc, m) ==
    Ok(BoolV(\A i \in 1..(Len(args) - 1) : args[i].t = args[i + 1].t), sc, m)

lib_equals(args, sc, m) ==
    IF Len(args) <= 1 THEN Ok(BoolV(TRUE), sc, m)
    ELSE Ok(BoolV(\A i \in 1..(Len(args) - 1) : ValRef_equals(m, args[i], args[i + 1])),
            sc, m)

lib_nequals(args, sc, m) ==
    LET r == lib_equals(args, sc, m) IN [r EXCEPT !.val = BoolV(~r.val.b)]

lib_lteq(args, sc, m) ==
    Ok(BoolV(\A i \in 1..(Len(args) - 1) : ~(to_num(args[i]) > to_num(args[i + 1]))),
       sc, m)

\* lib_def inserting into the parent of the current frame
RECURSIVE lib_def_parent(_, _, _)
lib_def_parent(args, sc, m) ==
    IF args = <<>> THEN Ok(NoneV, sc, m)
    ELSE IF args[1].t # "str" THEN Err(ErrExpected("string"), m)
    ELSE IF Len(args) < 2 THEN Err(ErrNotEnoughArgs, m)
    ELSE lib_def_parent(Tail2(args), sc,
                        Scope_insert(m, m.frames[sc].parent, args[1].s, args[2]))

RECURSIVE lib_def(_, _, _)
lib_def(args, sc, m) ==
    IF args = <<>> THEN Ok(NoneV, sc, m)
    ELSE IF args[1].t # "str" THEN Err(ErrExpected("string"), m)
    ELSE IF Len(args) < 2 THEN Err(ErrNotEnoughArgs, m)
    ELSE lib_def(Tail2(args), sc, Scope_insert(m, sc, args[1].s, args[2]))

\* the parameter names and the body of `lambda` and `func`: strings up to
\* the first block, and nothing after the block
FirstNonString(args) ==
    IF \E i \in 1..Len(args) : args[i].t # "str"
    THEN CHOOSE i \in 1..Len(args) :
            /\ args[i].t # "str"
            /\ \A j \in 1..(i - 1) : args[j].t = "str"
    ELSE 0

LambdaParts(args) ==
    LET i == FirstNonString(args)
    IN IF i = 0 THEN [ok |-> FALSE, err |-> ErrExpected("block")]
       ELSE IF args[i].t # "block"
       THEN [ok |-> FALSE, err |-> ErrExpected("string or block")]
       ELSE IF i < Len(args) THEN [ok |-> FALSE, err |-> ErrTooManyArgs]
       ELSE [ok |-> TRUE,
             argnames |-> [j \in 1..(i - 1) |-> args[j].s],
             block |-> args[i].body]

lib_func(args, sc, m) ==
    IF args = <<>> THEN Err(ErrNotEnoughArgs, m)
    ELSE IF args[1].t # "str" THEN Err(ErrExpected("string"), m)
    ELSE LET p == LambdaParts(Tail(args))
         IN IF ~p.ok THEN Err(p.err, m)
            ELSE Ok(NoneV, sc,
                    Scope_insert(m, sc, args[1].s, LambdaV(p.argnames, p.block, sc)))

\* lib_set without the has_shallow test
RECURSIVE lib_set_unchecked(_, _, _)
lib_set_unchecked(args, sc, m) ==
    IF args = <<>> THEN Ok(NoneV, sc, m)
    ELSE IF args[1].t # "str" THEN Err(ErrExpected("string"), m)
    ELSE IF Len(args) < 2 THEN Err(ErrNotEnoughArgs, m)
    ELSE lib_set_unchecked(Tail2(args), sc, Scope_insert(m, sc, args[1].s, args[2]))

RECURSIVE lib_set(_, _, _)
lib_set(args, sc, m) ==
    IF args = <<>> THEN Ok(NoneV, sc, m)
    ELSE IF args[1].t # "str" THEN Err(ErrExpected("string"), m)
    ELSE IF Len(args) < 2 THEN Err(ErrNotEnoughArgs, m)
    ELSE IF ~Scope_has_shallow(m, sc, args[1].s) THEN Err(ErrNoVariable(args[1].s), m)
    ELSE lib_set(Tail2(args), sc, Scope_insert(m, sc, args[1].s, args[2]))

\* the nearest frame, the one passed first, that binds the name; 0 if none
RECURSIVE Scope_rlookup(_, _, _)
Scope_rlookup(m, sc, name) ==
    IF sc = 0 THEN 0
    ELSE IF name \in DOMAIN m.frames[sc].map THEN sc
    ELSE Scope_rlookup(m, m.frames[sc].parent, name)

\* lib_mutate on the nearest frame that binds the name, not the current one
lib_mutate_owner(args, sc, m) ==
    IF Len(args) < 2 THEN Err(ErrNotEnoughArgs, m)
    ELSE IF args[1].t # "str" THEN Err(ErrExpected("string"), m)
    ELSE LET name == args[1].s
             o == Scope_rlookup(m, sc, name)
         IN IF o = 0
            THEN Err(StackTrace_from_str("Variable '" \o name \o "' doesn't exist in this scope"), m)
            ELSE LET r == call(args[2], <<m.frames[o].map[name]>> \o Tail2(args), sc,
                               Scope_maybe_inplace_erase(m, o, name))
                 IN IF ~r.ok THEN r
                    ELSE Ok(r.val, r.sc, Scope_insert(r.m, o, name, r.val))

\* lib_mutate without the insert after the call
lib_mutate_discard(args, sc, m) ==
    IF Len(args) < 2 THEN Err(ErrNotEnoughArgs, m)
    ELSE IF args[1].t # "str" THEN Err(ErrExpected("string"), m)
    ELSE LET val == Scope_lookup_shallow(m, sc, args[1].s)
         IN IF ~val.found
            THEN Err(StackTrace_from_str("Variable '" \o args[1].s \o "' doesn't exist in this scope"), m)
            ELSE call(args[2], <<val.val>> \o Tail2(args), sc,
                      Scope_maybe_inplace_erase(m, sc, args[1].s))

lib_mutate(args, sc, m) ==
    IF Len(args) < 2 THEN Err(ErrNotEnoughArgs, m)
    ELSE IF args[1].t # "str" THEN Err(ErrExpected("string"), m)
    ELSE LET name == args[1].s
             val == Scope_lookup_shallow(m, sc, name)
         IN IF ~val.found
            THEN Err(StackTrace_from_str("Variable '" \o name \o "' doesn't exist in this scope"), m)
            ELSE LET m1 == Scope_maybe_inplace_erase(m, sc, name)
                     r == call(args[2], <<val.val>> \o Tail2(args), sc, m1)
                 IN IF ~r.ok THEN r
                    ELSE Ok(r.val, r.sc, Scope_insert(r.m, r.sc, name, r.val))

lib_if(args, sc, m) ==
    IF Len(args) < 2 THEN Err(ErrNotEnoughArgs, m)
    ELSE IF Len(args) > 3 THEN Err(ErrTooManyArgs, m)
    ELSE IF to_bool(args[1]) THEN call(args[2], <<>>, sc, m)
    ELSE IF Len(args) = 3 THEN call(args[3], <<>>, sc, m)
    ELSE Ok(NoneV, sc, m)

\* mutant: the predicates of the blocks after the matching one are evaluated too
RECURSIVE lib_match_eager(_, _, _)
lib_match_eager(args, sc, m) ==
    IF args = <<>> THEN Ok(NoneV, sc, m)
    ELSE IF args[1].t # "block" THEN Err(ErrExpected("block"), m)
    ELSE IF Len(args[1].body) < 1
    THEN Err(StackTrace_from_str("Blocks must have at least 1 element"), m)
    ELSE LET p == eval(args[1].body[1], sc, m)
         IN IF ~p.ok THEN p
            ELSE IF to_bool(p.val)
            THEN LET b == eval_multiple(Tail(args[1].body), sc, p.m)
                     rest == lib_match_eager(Tail(args), sc, b.m)
                 IN IF ~b.ok THEN b
                    ELSE IF ~rest.ok THEN rest
                    ELSE Ok(b.val, sc, rest.m)
            ELSE lib_match_eager(Tail(args), sc, p.m)

\* the blocks in order: the first expression is the condition, evaluated in
\* the scope of the call; the scopes the evaluations return are dropped
RECURSIVE lib_match(_, _, _)
lib_match(args, sc, m) ==
    IF args = <<>> THEN Ok(NoneV, sc, m)
    ELSE IF args[1].t # "block" THEN Err(ErrExpected("block"), m)
    ELSE IF Len(args[1].body) < 1
    THEN Err(StackTrace_from_str("Blocks must have at least 1 element"), m)
    ELSE LET p == eval(args[1].body[1], sc, m)
         IN IF ~p.ok THEN p
            ELSE IF to_bool(p.val)
            THEN LET b == eval_multiple(Tail(args[1].body), sc, p.m)
                 IN IF ~b.ok THEN b ELSE Ok(b.val, sc, b.m)
            ELSE lib_match(Tail(args), sc, p.m)

lib_do(args, sc, m) ==
    IF args = <<>> THEN Ok(NoneV, sc, m) ELSE Ok(args[Len(args)], sc, m)

RECURSIVE JoinArgs(_, _)
JoinArgs(m, args) ==
    IF Len(args) = 1 THEN ValRef_display(m, args[1])
    ELSE ValRef_display(m, args[1]) \o " " \o JoinArgs(m, Tail(args))

\* lib_error joining a single argument into a String as well
lib_error_joined(args, sc, m) ==
    IF args = <<>> THEN Err(NoneV, m)
    ELSE Err(StrV(JoinArgs(m, args)), m)

lib_error(args, sc, m) ==
    IF args = <<>> THEN Err(NoneV, m)
    ELSE IF Len(args) = 1 THEN Err(args[1], m)
    ELSE Err(StrV(JoinArgs(m, args)), m)

\* lib_try handing the catch the rendered message instead of err.message
lib_try_rendered(args, sc, m) ==
    IF Len(args) < 2 THEN Err(ErrNotEnoughArgs, m)
    ELSE IF Len(args) > 2 THEN Err(ErrTooManyArgs, m)
    ELSE LET sub == NewFrameId(m)
             r == call(args[1], <<>>, sub, Scope_subscope(m, sc))
         IN IF r.ok \/ r.panic THEN r
            ELSE call(args[2], <<StrV(ValRef_display(r.m, r.val))>>, sc,
                      ReleaseFrame([r.m EXCEPT !.held = m.held], sub, r.val))

lib_try(args, sc, m) ==
    IF Len(args) < 2 THEN Err(ErrNotEnoughArgs, m)
    ELSE IF Len(args) > 2 THEN Err(ErrTooManyArgs, m)
    ELSE LET sub == NewFrameId(m)
             r == call(args[1], <<>>, sub, Scope_subscope(m, sc))
         IN IF r.ok \/ r.panic THEN r
            ELSE call(args[2], <<r.val>>, sc,
                      ReleaseFrame([r.m EXCEPT !.held = m.held], sub, r.val))

lib_lazy(args, sc, m) ==
    IF args = <<>> THEN Err(ErrNotEnoughArgs, m)
    ELSE IF Len(args) > 1 THEN Err(ErrTooManyArgs, m)
    ELSE Ok(ProtectedLazyV(args[1]), sc, m)

\* mutant: the lambda keeps a copy of the frame as it is at creation
lib_lambda_snapshot(args, sc, m) ==
    LET p == LambdaParts(args)
    IN IF ~p.ok THEN Err(p.err, m)
       ELSE Ok(LambdaV(p.argnames, p.block, NewFrameId(m)), sc,
               [m EXCEPT !.frames = Append(@, m.frames[sc])])

lib_lambda(args, sc, m) ==
    LET p == LambdaParts(args)
    IN IF ~p.ok THEN Err(p.err, m)
       ELSE Ok(LambdaV(p.argnames, p.block, sc), sc, m)

(***************************************************************************)
(* Lists and dicts.  A mutating operator works on the cell itself when     *)
(* Rc::strong_count is 1 (its own `lst` is then the only holder), and on a *)
(* clone of the cell otherwise.                                            *)
(***************************************************************************)
\* f64 as usize: truncation, saturating at 0
AsUsize(n) == IF n < 0 THEN 0 ELSE n

\* Rc::strong_count(&lst) inside an operator whose argument vector is args
ArgStrongCount(m, args, h) == StrongCount(m, h) + CountSeq(args, h)

\* mutant: the operator always works on the cell it was given
UniqueOrClone_never(m, args, h) == [h |-> h, m |-> m]

\* the cell the operator mutates: [h, m], the same handle or a fresh clone
UniqueOrClone(m, args, h) ==
    IF ArgStrongCount(m, args, h) = 1 THEN [h |-> h, m |-> m]
    ELSE [h |-> NewHandle(m), m |-> Alloc(m, m.heap[h])]

lib_list(args, sc, m) == Ok(ListV(NewHandle(m)), sc, Alloc(m, ListCell(args)))

lib_list_push(args, sc, m) ==
    IF args = <<>> THEN Err(ErrNotEnoughArgs, m)
    ELSE IF args[1].t # "list" THEN Err(ErrExpected("list"), m)
    ELSE LET c == UniqueOrClone(m, args, args[1].h)
         IN Ok(ListV(c.h), sc,
               [c.m EXCEPT !.heap[c.h].items = @ \o Tail(args)])

lib_list_pop(args, sc, m) ==
    IF args = <<>> THEN Err(ErrNotEnoughArgs, m)
    ELSE IF args[1].t # "list" THEN Err(ErrExpected("list"), m)
    ELSE IF Len(args) > 1 THEN Err(ErrTooManyArgs, m)
    ELSE LET c == UniqueOrClone(m, args, args[1].h)
         IN Ok(ListV(c.h), sc,
               [c.m EXCEPT !.heap[c.h].items =
                    IF @ = <<>> THEN @ ELSE SubSeq(@, 1, Len(@) - 1)])

\* mutant: an index equal to the length is accepted (the values are appended)
lib_list_insert_append(args, sc, m) ==
    IF args = <<>> THEN Err(ErrNotEnoughArgs, m)
    ELSE IF args[1].t # "list" THEN Err(ErrExpected("list"), m)
    ELSE IF Len(args) < 2 THEN Err(ErrNotEnoughArgs, m)
    ELSE IF args[2].t # "num" THEN Err(ErrExpected("number"), m)
    ELSE LET idx == AsUsize(args[2].n)
         IN IF idx > Len(m.heap[args[1].h].items)
            THEN Err(StackTrace_from_str("Index out of bounds"), m)
            ELSE LET c == UniqueOrClone(m, args, args[1].h)
                 IN Ok(ListV(c.h), sc,
                       [c.m EXCEPT !.heap[c.h].items =
                            SubSeq(@, 1, idx) \o Tail2(args) \o SubSeq(@, idx + 1, Len(@))])

lib_list_insert(args, sc, m) ==
    IF args = <<>> THEN Err(ErrNotEnoughArgs, m)
    ELSE IF args[1].t # "list" THEN Err(ErrExpected("list"), m)
    ELSE IF Len(args) < 2 THEN Err(ErrNotEnoughArgs, m)
    ELSE IF args[2].t # "num" THEN Err(ErrExpected("number"), m)
    ELSE LET idx == AsUsize(args[2].n)
         IN IF idx >= Len(m.heap[args[1].h].items)
            THEN Err(StackTrace_from_str("Index out of bounds"), m)
            ELSE LET c == UniqueOrClone(m, args, args[1].h)
                 IN Ok(ListV(c.h), sc,
                       [c.m EXCEPT !.heap[c.h].items =
                            SubSeq(@, 1, idx) \o Tail2(args) \o SubSeq(@, idx + 1, Len(@))])

lib_list_remove(args, sc, m) ==
    IF args = <<>> THEN Err(ErrNotEnoughArgs, m)
    ELSE IF args[1].t # "list" THEN Err(ErrExpected("list"), m)
    ELSE IF Len(args) < 2 THEN Err(ErrNotEnoughArgs, m)
    ELSE IF args[2].t # "num" THEN Err(ErrExpected("number"), m)
    ELSE IF Len(args) >= 3 /\ args[3].t # "num" THEN Err(ErrExpected("number"), m)
    ELSE LET idx == AsUsize(args[2].n)
             end == IF Len(args) >= 3 THEN AsUsize(args[3].n) ELSE idx + 1
             len == Len(m.heap[args[1].h].items)
         IN IF idx >= len
            THEN Err(StackTrace_from_str("Index out of bounds"), m)
            ELSE LET c == UniqueOrClone(m, args, args[1].h)
                 IN \* Vec::splice panics on a range that is reversed or past the end
                    IF end < idx \/ end > len THEN Panic(c.m)
                    ELSE Ok(ListV(c.h), sc,
                            [c.m EXCEPT !.heap[c.h].items =
                                 SubSeq(@, 1, idx) \o SubSeq(@, end + 1, Len(@))])

\* mutant: the in-place list-map leaves the sentinel instead of the result
RECURSIVE list_map_inplace_sentinel(_, _, _, _, _)
list_map_inplace_sentinel(h, func, idx, sc, m) ==
    IF idx > Len(m.heap[h].items) THEN Ok(ListV(h), sc, m)
    ELSE LET val == m.heap[h].items[idx]
             m1 == [m EXCEPT !.heap[h].items[idx] = NoneV]
             r == call(func, <<val, NumV(idx - 1)>>, sc, m1)
         IN IF ~r.ok THEN r
            ELSE list_map_inplace_sentinel(h, func, idx + 1, r.sc, r.m)

\* list-map on the cell itself: the element is taken out (None in its place)
\* while the callback runs
RECURSIVE list_map_inplace(_, _, _, _, _)
list_map_inplace(h, func, idx, sc, m) ==
    IF idx > Len(m.heap[h].items) THEN Ok(ListV(h), sc, m)
    ELSE LET val == m.heap[h].items[idx]
             m1 == [m EXCEPT !.heap[h].items[idx] = NoneV]
             r == call(func, <<val, NumV(idx - 1)>>, sc, m1)
         IN IF ~r.ok THEN r
            ELSE list_map_inplace(h, func, idx + 1, r.sc,
                                  [r.m EXCEPT !.heap[h].items[idx] = r.val])

\* list-map of a shared list: the results are collected in a new vector
RECURSIVE list_map_copy(_, _, _, _, _, _)
list_map_copy(h, func, idx, acc, sc, m) ==
    IF idx > Len(m.heap[h].items)
    THEN Ok(ListV(NewHandle(m)), sc, Alloc(m, ListCell(acc)))
    ELSE LET r == call(func, <<m.heap[h].items[idx], NumV(idx - 1)>>, sc, m)
         IN IF ~r.ok THEN r
            ELSE list_map_copy(h, func, idx + 1, Append(acc, r.val), r.sc, r.m)

lib_list_map(args, sc, m) ==
    IF args = <<>> THEN Err(ErrNotEnoughArgs, m)
    ELSE IF args[1].t # "list" THEN Err(ErrExpected("list"), m)
    ELSE IF Len(args) < 2 THEN Err(ErrNotEnoughArgs, m)
    ELSE IF Len(args) > 2 THEN Err(ErrTooManyArgs, m)
    ELSE IF ArgStrongCount(m, args, args[1].h) = 1
         THEN list_map_inplace(args[1].h, args[2], 1, sc, m)
         ELSE list_map_copy(args[1].h, args[2], 1, <<>>, sc, m)

lib_list_len(args, sc, m) ==
    IF args = <<>> THEN Err(ErrNotEnoughArgs, m)
    ELSE IF args[1].t # "list" THEN Err(ErrExpected("list"), m)
    ELSE IF Len(args) > 1 THEN Err(ErrTooManyArgs, m)
    ELSE Ok(NumV(Len(m.heap[args[1].h].items)), sc, m)

RECURSIVE dict_pairs(_, _)
dict_pairs(args, map) ==
    IF args = <<>> THEN [ok |-> TRUE, map |-> map]
    ELSE IF args[1].t # "str" THEN [ok |-> FALSE, map |-> map, err |-> ErrExpected("string")]
    ELSE IF Len(args) < 2 THEN [ok |-> FALSE, map |-> map, err |-> ErrNotEnoughArgs]
    ELSE dict_pairs(Tail2(args), MapPut(map, args[1].s, args[2]))

lib_dict(args, sc, m) ==
    LET p == dict_pairs(args, EmptyMap)
    IN IF ~p.ok THEN Err(p.err, m)
       ELSE Ok(DictV(NewHandle(m)), sc, Alloc(m, DictCell(p.map)))

lib_dict_set(args, sc, m) ==
    IF args = <<>> THEN Err(ErrNotEnoughArgs, m)
    ELSE IF args[1].t # "dict" THEN Err(ErrExpected("dict"), m)
    ELSE LET c == UniqueOrClone(m, args, args[1].h)
             p == dict_pairs(Tail(args), c.m.heap[c.h].map)
             m1 == [c.m EXCEPT !.heap[c.h].map = p.map]
         IN IF ~p.ok THEN Err(p.err, m1) ELSE Ok(DictV(c.h), sc, m1)

lib_dict_mutate(args, sc, m) ==
    IF Len(args) < 3 THEN Err(ErrNotEnoughArgs, m)
    ELSE IF args[1].t # "dict" THEN Err(ErrExpected("dict"), m)
    ELSE IF args[2].t # "str" THEN Err(ErrExpected("string"), m)
    ELSE LET name == args[2].s
             \* the two drained arguments are dropped before the count is read
             c == UniqueOrClone(m, <<args[1]>> \o Tail2(args), args[1].h)
         IN IF name \notin DOMAIN c.m.heap[c.h].map
            THEN Err(ErrNoVariable(name), c.m)
            ELSE LET val == c.m.heap[c.h].map[name]
                     m1 == [c.m EXCEPT !.heap[c.h].map = MapDel(@, name)]
                     r == call(args[3], <<val>> \o SubSeq(args, 4, Len(args)), sc, m1)
                 IN IF ~r.ok THEN r
                    ELSE Ok(DictV(c.h), r.sc,
                            [r.m EXCEPT !.heap[c.h].map = MapPut(@, name, r.val)])

(***************************************************************************)
(* The root scope: init_with_stdio registers the operators by name.        *)
(***************************************************************************)
StdlibNames ==
    {"print", "+", "-", "*", "/", "==", "!=", "<=", "def", "func", "set", "mutate", "if", "match",
     "do",
     "error", "try", "lazy", "lambda", "list", "list-push", "list-pop", "list-insert",
     "list-remove", "list-map", "list-len", "dict", "dict-set", "dict-mutate"}

PortV(p) == [t |-> "port", p |-> p]

init_with_stdio ==
    [k \in StdlibNames \cup {"stdout", "none", "false", "true"} |->
        CASE k = "stdout" -> PortV("stdout")
          [] k = "none" -> NoneV
          [] k = "false" -> BoolV(FALSE)
          [] k = "true" -> BoolV(TRUE)
          [] OTHER -> FuncV(k)]

\* ValRef::Func(f) => f(args, scope)
CallFunc(f, args, sc, m) ==
    CASE f = "print" -> lib_print(args, sc, m)
      [] f = "+" -> lib_add(args, sc, m)
      [] f = "-" -> lib_sub(args, sc, m)
      [] f = "*" -> lib_mul(args, sc, m)
      [] f = "/" -> lib_div(args, sc, m)
      [] f = "==" -> lib_equals(args, sc, m)
      [] f = "!=" -> lib_nequals(args, sc, m)
      [] f = "<=" -> lib_lteq(args, sc, m)
      [] f = "def" -> lib_def(args, sc, m)
      [] f = "func" -> lib_func(args, sc, m)
      [] f = "set" -> lib_set(args, sc, m)
      [] f = "mutate" -> lib_mutate(args, sc, m)
      [] f = "if" -> lib_if(args, sc, m)
      [] f = "match" -> lib_match(args, sc, m)
      [] f = "do" -> lib_do(args, sc, m)
      [] f = "error" -> lib_error(args, sc, m)
      [] f = "try" -> lib_try(args, sc, m)
      [] f = "lazy" -> lib_lazy(args, sc, m)
      [] f = "lambda" -> lib_lambda(args, sc, m)
      [] f = "list" -> lib_list(args, sc, m)
      [] f = "list-push" -> lib_list_push(args, sc, m)
      [] f = "list-pop" -> lib_list_pop(args, sc, m)
      [] f = "list-insert" -> lib_list_insert(args, sc, m)
      [] f = "list-remove" -> lib_list_remove(args, sc, m)
      [] f = "list-map" -> lib_list_map(args, sc, m)
      [] f = "list-len" -> lib_list_len(args, sc, m)
      [] f = "dict" -> lib_dict(args, sc, m)
      [] f = "dict-set" -> lib_dict_set(args, sc, m)
      [] OTHER -> lib_dict_mutate(args, sc, m)

(***************************************************************************)
(* The evaluator.                                                          *)
(***************************************************************************)
\* Lambda: the parameters are bound in a fresh subscope of the captured
\* scope, the body is evaluated there, the caller keeps its own scope
RECURSIVE BindParams(_, _, _, _)
BindParams(m, f, names, args) ==
    IF names = <<>> THEN m
    ELSE BindParams(Scope_insert(m, f, names[1], args[1]), f, Tail(names), Tail(args))

\* call_lambda binding the parameters in the captured scope itself
call_lambda_captured(l, args, sc, m) ==
    IF Len(args) < Len(l.args) THEN Err(ErrNotEnoughArgs, m)
    ELSE IF Len(args) > Len(l.args) THEN Err(ErrTooManyArgs, m)
    ELSE LET r == eval_multiple(l.body, l.scope, BindParams(m, l.scope, l.args, args))
         IN IF r.ok THEN Ok(r.val, sc, r.m) ELSE r

call_lambda(l, args, sc, m) ==
    IF Len(args) < Len(l.args) THEN Err(ErrNotEnoughArgs, m)
    ELSE IF Len(args) > Len(l.args) THEN Err(ErrTooManyArgs, m)
    ELSE LET f == NewFrameId(m)
             r == eval_multiple(l.body, f,
                                BindParams(Scope_subscope(m, l.scope), f, l.args, args))
         IN IF r.panic THEN r
            ELSE IF ~r.ok THEN [r EXCEPT !.m = ReleaseFrame(r.m, f, r.val)]
            ELSE Ok(r.val, sc, ReleaseFrame(r.m, f, r.val))

\* call_list that fails outside the list
call_list_strict(l, args, sc, m) ==
    IF args = <<>> THEN Err(ErrNotEnoughArgs, m)
    ELSE IF Len(args) > 1 THEN Err(ErrTooManyArgs, m)
    ELSE IF args[1].t # "num" THEN Err(ErrExpected("number"), m)
    ELSE IF args[1].n >= 0 /\ args[1].n < Len(m.heap[l.h].items)
    THEN Ok(m.heap[l.h].items[args[1].n + 1], sc, m)
    ELSE Err(StackTrace_from_str("Index out of bounds"), m)

\* List: one numeric argument, the element or None
call_list(l, args, sc, m) ==
    IF args = <<>> THEN Err(ErrNotEnoughArgs, m)
    ELSE IF Len(args) > 1 THEN Err(ErrTooManyArgs, m)
    ELSE IF args[1].t # "num" THEN Err(ErrExpected("number"), m)
    ELSE LET items == m.heap[l.h].items
         IN IF args[1].n >= 0 /\ args[1].n < Len(items)
            THEN Ok(items[args[1].n + 1], sc, m)
            ELSE Ok(NoneV, sc, m)

\* Dict: one string argument, the value or None
call_dict(d, args, sc, m) ==
    IF args = <<>> THEN Err(ErrNotEnoughArgs, m)
    ELSE IF Len(args) > 1 THEN Err(ErrTooManyArgs, m)
    ELSE IF args[1].t # "str" THEN Err(ErrExpected("string"), m)
    ELSE IF args[1].s \in DOMAIN m.heap[d.h].map
         THEN Ok(m.heap[d.h].map[args[1].s], sc, m)
         ELSE Ok(NoneV, sc, m)

\* call with a Block evaluated in a new subscope of the caller's scope
call_block_scoped(func, args, sc, m) ==
    CASE func.t = "func" -> CallFunc(func.f, args, sc, m)
      [] func.t = "block" ->
            LET r == eval_multiple(func.body, NewFrameId(m), Scope_subscope(m, sc))
            IN IF r.ok THEN Ok(r.val, sc, r.m) ELSE r
      [] func.t = "lambda" -> call_lambda(func, args, sc, m)
      [] func.t = "list" -> call_list(func, args, sc, m)
      [] func.t = "dict" -> call_dict(func, args, sc, m)
      [] OTHER -> Err(StackTrace_from_str("Attempt to call non-function"), m)

\* the application of a callee value to an argument list
call(func, args, sc, m) ==
    CASE func.t = "func" -> CallFunc(func.f, args, sc, m)
      [] func.t = "block" -> eval_multiple(func.body, sc, m)
      [] func.t = "lambda" -> call_lambda(func, args, sc, m)
      [] func.t = "list" -> call_list(func, args, sc, m)
      [] func.t = "dict" -> call_dict(func, args, sc, m)
      [] OTHER -> Err(StackTrace_from_str("Attempt to call non-function"), m)

\* the body of a block: each expression in order, the last value
RECURSIVE eval_body(_, _, _, _)
eval_body(exprs, retval, sc, m) ==
    IF exprs = <<>> THEN Ok(retval, sc, m)
    ELSE LET r == eval(exprs[1], sc, m)
         IN IF ~r.ok THEN r ELSE eval_body(Tail(exprs), r.val, r.sc, r.m)

eval_multiple(exprs, sc, m) == eval_body(exprs, NoneV, sc, m)

Logged(m, id, idx) == [m EXCEPT !.log = Append(@, <<id, idx>>)]

\* the log entry of the application: a callee that is no function is
\* matched by the error arm and applied to nothing
Applied(m, id, func) ==
    IF func.t \in {"func", "block", "lambda", "list", "dict"} THEN Logged(m, id, -1) ELSE m

\* the arguments exprs[idx..] of Call id, left to right; the values already
\* evaluated stay in the argument vector
RECURSIVE eval_args(_, _, _, _, _, _)
eval_args(exprs, idx, args, id, sc, m) ==
    IF idx > Len(exprs) THEN [ok |-> TRUE, panic |-> FALSE, args |-> args, sc |-> sc, m |-> m]
    ELSE LET r == eval(exprs[idx], sc, Logged(m, id, idx - 1))
         IN IF ~r.ok THEN [ok |-> FALSE, panic |-> r.panic, val |-> r.val, m |-> r.m,
                            trace |-> r.trace]
            ELSE eval_args(exprs, idx + 1, Append(args, r.val), id, r.sc,
                           [r.m EXCEPT !.held = Append(@, r.val)])

\* eval_call with the head evaluated before the arguments
eval_call_headfirst(exprs, sc, m) ==
    IF Len(exprs) < 1 THEN Err(StackTrace_from_str("Call list has no elements"), m)
    ELSE LET id == m.ncalls + 1
             f == eval(exprs[1], sc, Logged([m EXCEPT !.ncalls = id], id, 0))
         IN IF ~f.ok THEN f
            ELSE LET a == eval_args(exprs, 2, <<>>, id, f.sc, f.m)
                 IN IF ~a.ok
                    THEN [ok |-> FALSE, panic |-> a.panic, val |-> a.val, sc |-> 0, m |-> a.m,
                          trace |-> a.trace]
                    ELSE LET r == call(f.val, a.args, a.sc,
                                       [Applied(a.m, id, f.val) EXCEPT !.held = m.held])
                         IN IF r.ok THEN Ok(r.val, r.sc, [r.m EXCEPT !.held = m.held])
                            ELSE r

\* Expression::Call: the arguments, then the head, then the application
eval_call(exprs, sc, m) ==
    IF Len(exprs) < 1 THEN Err(StackTrace_from_str("Call list has no elements"), m)
    ELSE LET id == m.ncalls + 1
             a == eval_args(exprs, 2, <<>>, id, sc, [m EXCEPT !.ncalls = id])
         IN IF ~a.ok THEN [ok |-> FALSE, panic |-> a.panic, val |-> a.val, sc |-> 0, m |-> a.m,
                          trace |-> a.trace]
            ELSE LET f == eval(exprs[1], a.sc, Logged(a.m, id, 0))
                 IN IF ~f.ok THEN f
                    ELSE LET r == call(f.val, a.args, f.sc,
                                       [Applied(f.m, id, f.val) EXCEPT !.held = m.held])
                         IN IF r.ok THEN Ok(r.val, r.sc, [r.m EXCEPT !.held = m.held])
                            ELSE r

\* attach_loc that appends nothing
attach_loc_never(r, loc) == r

\* a Call that fails appends its location to the StackTrace
attach_loc(r, loc) ==
    IF r.ok \/ r.panic THEN r ELSE [r EXCEPT !.trace = Append(@, loc)]

\* force that leaves every value as it is
force_never(r) == r

\* a value that was looked up or computed: a Lazy is called with no
\* arguments and replaced by what the call returns, again and again; a
\* ProtectedLazy loses its protection.  Nothing is kept of the call: the
\* Lazy holds an Rc<ValRef>, the function, and no cell for a result.
RECURSIVE force(_)
force(r) ==
    IF ~r.ok THEN r
    ELSE IF r.val.t = "lazy" THEN force(call(r.val.f, <<>>, r.sc, r.m))
    ELSE IF r.val.t = "plazy" THEN [r EXCEPT !.val = LazyV(r.val.f)]
    ELSE r

eval(expr, sc, m) ==
    CASE expr.k = "str" -> Ok(StrV(expr.s), sc, m)
      [] expr.k = "num" -> Ok(NumV(expr.n), sc, m)
      [] expr.k = "name" ->
            LET r == Scope_lookup(m, sc, expr.s)
            IN IF r.found THEN force(Ok(r.val, sc, m)) ELSE Err(ErrNoVariable(expr.s), m)
      [] expr.k = "call" -> force(attach_loc(eval_call(expr.ch, sc, m), m.ncalls + 1))
      [] OTHER -> Ok(BlockV(expr.ch), sc, m)

(***************************************************************************)
(* The top-level loop (osyris.rs main): the root scope holds the standard  *)
(* operators, the program runs in a child of it; each expression is parsed *)
(* and evaluated in turn and the first error ends the process.             *)
(*   mem      the interpreter's memory                                     *)
(*   cur      the scope the next expression is evaluated in                *)
(*   pending  the expression parsed and not yet evaluated (tag "none":     *)
(*            none), with a tag and an argument that name it               *)
(*   last     the last expression evaluated, its result, and the memory    *)
(*            and scope it started from                                    *)
(*   status   "running"; "exited" after process::exit(1); "aborted" after  *)
(*            a panic; "done" after main has returned                      *)
(*   trail    what was evaluated so far: <<tag, argument, ok, value>>      *)
(*   print_ast  the --print-ast flag of the command line                   *)
(***************************************************************************)
RootScope == 1
TopScope == 2

InitMem ==
    [frames |-> <<Frame(0, init_with_stdio), Frame(RootScope, EmptyMap)>>,
     heap |-> <<>>, held |-> <<>>, log |-> <<>>, ncalls |-> 0, out |-> <<>>]

NoPending == [tag |-> "none", arg |-> NoneV, expr |-> NumE(0)]

\* main up to its loop, with the --print-ast flag given or not
Started(flag) ==
    /\ mem = InitMem
    /\ cur = TopScope
    /\ pending = NoPending
    /\ last = [tag |-> "init", arg |-> NoneV, expr |-> NumE(0), ok |-> TRUE,
               panic |-> FALSE, val |-> NoneV, trace |-> <<>>, pre |-> InitMem,
               precur |-> TopScope]
    /\ status = "running"
    /\ trail = <<>>
    /\ print_ast = flag

Init == Started(FALSE)

\* parse::parse returns the next expression of the source file
Parse(expr, tag, arg) ==
    /\ pending.tag = "none"
    /\ Len(trail) < MaxSteps
    /\ pending' = [tag |-> tag, arg |-> arg, expr |-> expr]
    /\ UNCHANGED <<mem, cur, last, status, trail, print_ast>>

\* mutant: the loop goes on to the next expression after an error
Eval_carry_on ==
    /\ status = "running"
    /\ ~print_ast
    /\ pending.tag # "none"
    /\ LET start == [mem EXCEPT !.log = <<>>, !.ncalls = 0]
           r == eval(pending.expr, cur, start)
       IN /\ mem' = [r.m EXCEPT !.held = <<>>]
          /\ cur' = IF r.ok THEN r.sc ELSE cur
          /\ status' = "running"
          /\ last' = [tag |-> pending.tag, arg |-> pending.arg, expr |-> pending.expr,
                      ok |-> r.ok, panic |-> r.panic, val |-> r.val, trace |-> r.trace,
                      pre |-> start, precur |-> cur]
          /\ trail' = Append(trail, <<pending.tag, pending.arg, r.ok, r.val>>)
          /\ pending' = NoPending
          /\ UNCHANGED print_ast

\* eval::eval of the parsed expression; an error ends the process
Eval ==
    /\ status = "running"
    /\ ~print_ast
    /\ pending.tag # "none"
    /\ LET start == [mem EXCEPT !.log = <<>>, !.ncalls = 0]
           r == eval(pending.expr, cur, start)
       IN /\ mem' = [r.m EXCEPT !.held = <<>>]
          /\ cur' = IF r.ok THEN r.sc ELSE cur
          /\ status' = IF r.ok THEN "running" ELSE IF r.panic THEN "aborted" ELSE "exited"
          /\ last' = [tag |-> pending.tag, arg |-> pending.arg, expr |-> pending.expr,
                      ok |-> r.ok, panic |-> r.panic, val |-> r.val, trace |-> r.trace,
                      pre |-> start, precur |-> cur]
          /\ trail' = Append(trail, <<pending.tag, pending.arg, r.ok, r.val>>)
          /\ pending' = NoPending
          /\ UNCHANGED print_ast

\* (f a b ...) and [a f b]
App(f, args) == CallE(<<NameE(f)>> \o args)

(***************************************************************************)
(* Late binding: programs over x, f and fact.                              *)
(***************************************************************************)
XValues == {10, 50}
FArgs == {3}

AddXY == QuoteE(<<App("+", <<NameE("x"), NameE("y")>>)>>)

FactBody ==
    QuoteE(<<App("if", <<App("<=", <<NameE("n"), NumE(1)>>),
                         QuoteE(<<NumE(1)>>),
                         QuoteE(<<App("*", <<NameE("n"),
                                             App("fact", <<App("-", <<NameE("n"), NumE(1)>>)>>)>>)>>)>>)>>)

DefX ==
    /\ status = "running"
    /\ \E v \in XValues : Parse(App("def", <<StrE("x"), NumE(v)>>), "defx", NumV(v))

\* (def 'x v) as the first expression of the file
FirstDefX ==
    /\ status = "running"
    /\ trail = <<>>
    /\ DefX

SetX ==
    /\ status = "running"
    /\ \E v \in XValues : Parse(App("set", <<StrE("x"), NumE(v)>>), "setx", NumV(v))

DefF ==
    /\ status = "running"
    /\ Parse(App("def", <<StrE("f"), App("lambda", <<StrE("y"), AddXY>>)>>), "deff", NoneV)

FuncF ==
    /\ status = "running"
    /\ Parse(App("func", <<StrE("f"), StrE("y"), AddXY>>), "funcf", NoneV)

CallF ==
    /\ status = "running"
    /\ \E a \in FArgs : Parse(App("f", <<NumE(a)>>), "callf", NumV(a))

DefFact ==
    /\ status = "running"
    /\ Parse(App("def", <<StrE("fact"), App("lambda", <<StrE("n"), FactBody>>)>>),
           "deffact", NoneV)

CallFact ==
    /\ status = "running"
    /\ \E a \in FArgs : Parse(App("fact", <<NumE(a)>>), "callfact", NumV(a))

NextLate == DefX \/ SetX \/ DefF \/ FuncF \/ CallF \/ DefFact \/ CallFact \/ Eval

SpecLate == Init /\ [][NextLate]_vars

RECURSIVE Factorial(_)
Factorial(n) == IF n <= 1 THEN 1 ELSE n * Factorial(n - 1)

\* C1: a call of the lambda f (body [x + y]) yields the sum of its argument
\* and the value x is bound to when the call is made, whatever x was bound
\* to (if at all) when f was created; the recursive fact, whose body refers
\* to a name defined only after the lambda was created, computes n!.
C1_LateBinding ==
    /\ (last.tag = "callf" /\ last.ok) =>
          /\ Scope_lookup(last.pre, last.precur, "x").found
          /\ last.val = NumV(Scope_lookup(last.pre, last.precur, "x").val.n + last.arg.n)
    /\ (last.tag = "callfact" /\ last.ok) => last.val = NumV(Factorial(last.arg.n))

\* f was created while x was 10, x was then set to 50, and (f 3) gave 53
C1_Witness ==
    /\ Len(trail) = 4
    /\ trail[1] = <<"defx", NumV(10), TRUE, NoneV>>
    /\ trail[2][1] \in {"deff", "funcf"}
    /\ trail[3] = <<"setx", NumV(50), TRUE, NoneV>>
    /\ trail[4] = <<"callf", NumV(3), TRUE, NumV(53)>>

(***************************************************************************)
(* list-push on a list bound to two names.                                 *)
(***************************************************************************)
List123 == App("list", <<NumE(1), NumE(2), NumE(3)>>)

DefL ==
    /\ status = "running"
    /\ Parse(App("def", <<StrE("l"), List123>>), "defl", NoneV)

DefM ==
    /\ status = "running"
    /\ Parse(App("def", <<StrE("m"), NameE("l")>>), "defm", NoneV)

PushL ==
    /\ status = "running"
    /\ Parse(App("list-push", <<NameE("l"), NumE(4)>>), "push", NumV(4))

MutatePushL ==
    /\ status = "running"
    /\ Parse(App("mutate", <<StrE("l"), NameE("list-push"), NumE(4)>>), "mutpush", NumV(4))

PrintLens ==
    /\ status = "running"
    /\ Parse(App("print", <<App("list-len", <<NameE("l")>>), App("list-len", <<NameE("m")>>)>>),
             "printlens", NoneV)

NextPush == DefL \/ DefM \/ PushL \/ MutatePushL \/ PrintLens \/ Eval

SpecPush == Init /\ [][NextPush]_vars

\* the program (def 'l (list 1 2 3)) (def 'm l) (list-push l 4) (print ...)
Scenario3 ==
    /\ Len(trail) = 4
    /\ trail[1][1] = "defl" /\ trail[2][1] = "defm"
    /\ trail[3][1] = "push" /\ trail[4][1] = "printlens"

\* C3 as stated: the scenario prints "4 3" and a newline.
C3_Original == Scenario3 => (last.ok /\ mem.out = <<"4", " ", "3", "\n">>)

\* C3, amended: list-push returns a new list and rebinds nothing, so both
\* l and m still have length 3 and the scenario prints "3 3" and a newline;
\* with (mutate 'l list-push 4) in place of the list-push it prints "4 3".
C3_PushKeepsBoth ==
    /\ Scenario3 => (last.ok /\ mem.out = <<"3", " ", "3", "\n">>)
    /\ (/\ Len(trail) = 4
        /\ trail[1][1] = "defl" /\ trail[2][1] = "defm"
        /\ trail[3][1] = "mutpush" /\ trail[4][1] = "printlens")
       => (last.ok /\ mem.out = <<"4", " ", "3", "\n">>)

C3_Witness == Scenario3 /\ last.ok /\ Len(mem.out) = 4

(***************************************************************************)
(* Mutating operators on lists and dicts that are bound to names.          *)
(***************************************************************************)
Times10 ==
    App("lambda", <<StrE("x"), StrE("i"), QuoteE(<<App("*", <<NameE("x"), NumE(10)>>)>>)>>)

ListOps == {"list-push", "list-pop", "list-insert", "list-remove", "list-map"}

ListOpArgs(op) ==
    CASE op = "list-push" -> <<NumE(4)>>
      [] op = "list-pop" -> <<>>
      [] op = "list-insert" -> <<NumE(0), NumE(9)>>
      [] op = "list-remove" -> <<NumE(0)>>
      [] OTHER -> <<Times10>>

DictOps == {"dict-set", "dict-mutate"}

DictOpArgs(op) ==
    IF op = "dict-set" THEN <<StrE("a"), NumE(5)>>
    ELSE <<StrE("a"), NameE("+"), NumE(1)>>

DefD ==
    /\ status = "running"
    /\ Parse(App("def", <<StrE("d"), App("dict", <<StrE("a"), NumE(1), StrE("b"), NumE(2)>>)>>),
             "defd", NoneV)

DefE ==
    /\ status = "running"
    /\ Parse(App("def", <<StrE("e"), NameE("d")>>), "defe", NoneV)

ListOp ==
    /\ status = "running"
    /\ \E op \in ListOps : Parse(App(op, <<NameE("l")>> \o ListOpArgs(op)), "listop", StrV(op))

DictOp ==
    /\ status = "running"
    /\ \E op \in DictOps : Parse(App(op, <<NameE("d")>> \o DictOpArgs(op)), "dictop", StrV(op))

NextShare == DefL \/ DefM \/ DefD \/ DefE \/ ListOp \/ DictOp \/ MutatePushL \/ Eval

SpecShare == Init /\ [][NextShare]_vars

\* C2: a mutating operator applied to a list or dict that a name holds
\* returns a handle that did not exist before, and leaves every cell that
\* existed and every binding as it was; and no expression at all changes a
\* cell that two or more bindings hold.
C2_CopyOnShare ==
    /\ (last.tag \in {"listop", "dictop"} /\ last.ok) =>
          /\ last.val.t \in {"list", "dict"}
          /\ last.val.h > Len(last.pre.heap)
          /\ \A h \in 1..Len(last.pre.heap) : mem.heap[h] = last.pre.heap[h]
          /\ \A f \in 1..Len(last.pre.frames) : mem.frames[f] = last.pre.frames[f]
    /\ \A h \in 1..Len(last.pre.heap) :
          StrongCount(last.pre, h) >= 2 => mem.heap[h] = last.pre.heap[h]

\* each of the seven operators has been applied to a list or dict held by
\* two names
C2_Witness ==
    /\ last.tag \in {"listop", "dictop"}
    /\ last.ok
    /\ last.arg = StrV("dict-mutate")
    /\ "e" \in DOMAIN mem.frames[TopScope].map
    /\ mem.heap[last.val.h].map["a"] = NumV(2)

(***************************************************************************)
(* mutate against set.                                                     *)
(***************************************************************************)
\* the contents of a value, whatever the handles
RECURSIVE Deep(_, _)
Deep(m, v) ==
    IF v.t = "list"
    THEN [t |-> "list",
          items |-> [i \in 1..Len(m.heap[v.h].items) |-> Deep(m, m.heap[v.h].items[i])]]
    ELSE IF v.t = "dict"
    THEN [t |-> "dict",
          map |-> [k \in DOMAIN m.heap[v.h].map |-> Deep(m, m.heap[v.h].map[k])]]
    ELSE v

MutKinds == {"add", "double", "push", "reader"}

MutName(kind) == IF kind = "push" THEN "l" ELSE "x"

\* the callable and the arguments after it
MutCallee(kind) ==
    CASE kind = "add" -> <<NameE("+"), NumE(1)>>
      [] kind = "double" ->
            <<App("lambda", <<StrE("v"), QuoteE(<<App("*", <<NameE("v"), NumE(2)>>)>>)>>)>>
      [] kind = "push" -> <<NameE("list-push"), NumE(4)>>
      [] OTHER ->
            <<App("lambda", <<StrE("v"), QuoteE(<<App("+", <<NameE("x"), NameE("v")>>)>>)>>)>>

MutateForm(kind) == App("mutate", <<StrE(MutName(kind))>> \o MutCallee(kind))

SetForm(kind) ==
    App("set", <<StrE(MutName(kind)),
                 CallE(<<Head(MutCallee(kind)), NameE(MutName(kind))>> \o Tail(MutCallee(kind)))>>)

\* nested: ((lambda {(def name init) (list inner name)})), so that the name
\* is bound in the frame of the call, over whatever the top level binds
InFrame(kind, inner) ==
    CallE(<<App("lambda",
                <<QuoteE(<<App("def", <<StrE(MutName(kind)),
                                        IF kind = "push" THEN App("list", <<NumE(8), NumE(9)>>)
                                        ELSE NumE(7)>>),
                           App("list", <<inner, NameE(MutName(kind))>>)>>)>>)>>)

MutProgram(kind, nested, inner) == IF nested THEN InFrame(kind, inner) ELSE inner

Mutate ==
    /\ status = "running"
    /\ \E kind \in MutKinds, nested \in BOOLEAN :
          Parse(MutProgram(kind, nested, MutateForm(kind)), "mutate",
                [kind |-> kind, nested |-> nested])

NextMutate == FirstDefX \/ DefL \/ DefM \/ Mutate \/ Eval

SpecMutate == Init /\ [][NextMutate]_vars

\* what the last step, a mutate, and the same step with set in its place
\* leave: the value returned and the value the name is bound to afterwards
MutateLeaves ==
    IF last.arg.nested
    THEN [ret |-> Deep(mem, last.val).items[1], bound |-> Deep(mem, last.val).items[2]]
    ELSE [ret |-> Deep(mem, last.val),
          bound |-> Deep(mem, Scope_lookup_shallow(mem, cur, MutName(last.arg.kind)).val)]

SetLeaves ==
    LET s == eval(MutProgram(last.arg.kind, last.arg.nested, SetForm(last.arg.kind)),
                  last.precur, last.pre)
    IN IF ~s.ok THEN [ok |-> FALSE]
       ELSE IF last.arg.nested
       THEN [ok |-> TRUE, ret |-> Deep(s.m, s.val).items[1], bound |-> Deep(s.m, s.val).items[2]]
       ELSE [ok |-> TRUE, ret |-> Deep(s.m, s.val),
             bound |-> Deep(s.m, s.m.frames[s.sc].map[MutName(last.arg.kind)])]

MutateAsSet ==
    /\ SetLeaves.ok
    /\ MutateLeaves.bound = SetLeaves.bound
    /\ MutateLeaves.ret = MutateLeaves.bound
    /\ SetLeaves.ret = NoneV

SetPlaces == {"top", "root", "child", "childown"}

\* top:      (set 'x v) at the top level
\* root:     (set 'none v) at the top level; none is bound in the root frame
\* child:    ((lambda {(set 'x v)})), x bound at most in an ancestor
\* childown: ((lambda {(def 'x 7) (set 'x v) x})), x bound in the call's frame
SetProgram(place, v) ==
    CASE place = "top" -> App("set", <<StrE("x"), NumE(v)>>)
      [] place = "root" -> App("set", <<StrE("none"), NumE(v)>>)
      [] place = "child" ->
            CallE(<<App("lambda", <<QuoteE(<<App("set", <<StrE("x"), NumE(v)>>)>>)>>)>>)
      [] OTHER ->
            CallE(<<App("lambda", <<QuoteE(<<App("def", <<StrE("x"), NumE(7)>>),
                                             App("set", <<StrE("x"), NumE(v)>>),
                                             NameE("x")>>)>>)>>)

SetName(place) == IF place = "root" THEN "none" ELSE "x"

SetAt ==
    /\ status = "running"
    /\ \E place \in SetPlaces, v \in XValues :
          Parse(SetProgram(place, v), "set", [place |-> place, v |-> v])

\* ((lambda {(def 'x 7) x}))
DefIn ==
    /\ status = "running"
    /\ Parse(CallE(<<App("lambda", <<QuoteE(<<App("def", <<StrE("x"), NumE(7)>>),
                                              NameE("x")>>)>>)>>),
             "defin", NumV(7))

NextScope == DefX \/ DefF \/ CallF \/ SetAt \/ DefIn \/ Eval

SpecScope == Init /\ [][NextScope]_vars

\* the frame, nearest first, that binds the name; 0 if none does
RECURSIVE Owner(_, _, _)
Owner(m, sc, name) ==
    IF sc = 0 THEN 0
    ELSE IF name \in DOMAIN m.frames[sc].map THEN sc
    ELSE Owner(m, m.frames[sc].parent, name)

FramesKept == \A f \in 1..Len(last.pre.frames) : mem.frames[f] = last.pre.frames[f]

\* only the binding of name in frame f differs from before the step
OnlyRebound(f, name, v) ==
    /\ mem.frames[f].map = MapPut(last.pre.frames[f].map, name, v)
    /\ \A g \in 1..Len(last.pre.frames) : g # f => mem.frames[g] = last.pre.frames[g]
    /\ \A g \in (Len(last.pre.frames) + 1)..Len(mem.frames) :
          name \notin DOMAIN mem.frames[g].map

SetFails ==
    /\ ~last.ok
    /\ last.val = ErrNoVariable(SetName(last.arg.place))
    /\ FramesKept
    /\ \A g \in (Len(last.pre.frames) + 1)..Len(mem.frames) :
          SetName(last.arg.place) \notin DOMAIN mem.frames[g].map

\* C5 as stated: a set of a name bound in the current frame or an ancestor
\* updates the nearest frame that binds the name and no other; a set of a
\* name bound nowhere fails and binds nothing.
C5_Original ==
    (last.tag = "set" /\ last.arg.place # "childown") =>
        LET o == Owner(last.pre, last.precur, SetName(last.arg.place))
        IN IF o # 0
           THEN last.ok /\ OnlyRebound(o, SetName(last.arg.place), NumV(last.arg.v))
           ELSE SetFails

\* C5, amended: set looks at the current frame only.  A name bound there is
\* rebound there and nothing else changes; a name bound only in an ancestor
\* frame, or nowhere, makes set fail with "Variable '<name>' doesn't exist"
\* and nothing changes.
C5_SetShallow ==
    last.tag = "set" =>
        CASE last.arg.place = "top" ->
                IF "x" \in DOMAIN last.pre.frames[last.precur].map
                THEN last.ok /\ OnlyRebound(last.precur, "x", NumV(last.arg.v))
                ELSE SetFails
          [] last.arg.place \in {"root", "child"} -> SetFails
          [] OTHER -> last.ok /\ last.val = NumV(last.arg.v) /\ FramesKept

\* a set from the frame of a call, of a name the top level binds, has failed
C5_Witness ==
    /\ last.tag = "set" /\ last.arg.place = "child"
    /\ Owner(last.pre, last.precur, "x") = TopScope
    /\ ~last.ok

\* C6: def binds in the current frame only.  In the frame of a call,
\* (def 'x 7) makes x read 7 there and leaves every frame that existed,
\* so also what the top level reads for x, as it was; at the top level it
\* binds x in the top-level frame and leaves the root frame as it was.
C6_DefCurrentFrame ==
    /\ last.tag = "defin" =>
          /\ last.ok /\ last.val = NumV(7)
          /\ FramesKept
          /\ Scope_lookup(mem, cur, "x") = Scope_lookup(last.pre, last.precur, "x")
    /\ last.tag = "defx" => last.ok /\ OnlyRebound(last.precur, "x", last.arg)

\* x was 50 at the top level when the call's frame bound its own x
C6_Witness ==
    /\ last.tag = "defin" /\ last.ok
    /\ Scope_lookup(mem, cur, "x") = [found |-> TRUE, val |-> NumV(50)]

(***************************************************************************)
(* try: bodies that succeed, that raise, and that define a name.           *)
(***************************************************************************)
TryKinds == {"value", "error", "errorlist", "deep", "unbound", "defvalue", "deferror"}

Raise7 == App("error", <<NumE(7)>>)

TryBody(kind) ==
    CASE kind = "value" -> <<NumE(5)>>
      [] kind = "error" -> <<Raise7>>
      [] kind = "errorlist" -> <<App("error", <<App("list", <<NumE(1), NumE(2)>>)>>)>>
      [] kind = "deep" ->
            <<CallE(<<App("lambda", <<QuoteE(<<App("+", <<NumE(1), Raise7>>)>>)>>)>>)>>
      [] kind = "unbound" -> <<NameE("nosuch")>>
      [] kind = "defvalue" -> <<App("def", <<StrE("y"), NumE(1)>>), NumE(5)>>
      [] OTHER -> <<App("def", <<StrE("y"), NumE(1)>>), Raise7>>

\* (lambda 'e {(print "caught") e})
Catch == App("lambda", <<StrE("e"), QuoteE(<<App("print", <<StrE("caught")>>), NameE("e")>>)>>)

Try ==
    /\ status = "running"
    /\ \E kind \in TryKinds :
          Parse(App("try", <<QuoteE(TryBody(kind)), Catch>>), "try", StrV(kind))

ReadY ==
    /\ status = "running"
    /\ Parse(NameE("y"), "ready", NoneV)

NextTry == Try \/ ReadY \/ Eval

SpecTry == Init /\ [][NextTry]_vars

\* the value the body's error carries
Payload(kind) ==
    CASE kind = "errorlist" -> [t |-> "list", items |-> <<NumV(1), NumV(2)>>]
      [] kind = "unbound" -> ErrNoVariable("nosuch")
      [] OTHER -> NumV(7)

\* C7: a try whose body yields 5 returns 5 and its catch does not run (it
\* would print); a try whose body raises, directly or inside a nested call,
\* runs its catch once, with the value the error carries as the argument,
\* and returns what the catch returns.
C7_TryCatch ==
    last.tag = "try" =>
        /\ last.ok
        /\ IF last.arg.s \in {"value", "defvalue"}
           THEN last.val = NumV(5) /\ mem.out = last.pre.out
           ELSE /\ Deep(mem, last.val) = Payload(last.arg.s)
                /\ mem.out = last.pre.out \o <<"caught", "\n">>

\* an error raised inside a nested call has reached the catch as the number 7
C7_Witness ==
    /\ last.tag = "try" /\ last.arg = StrV("deep")
    /\ last.ok /\ last.val = NumV(7)
    /\ Len(mem.out) >= 2

\* C8 as stated: after a try, the expressions that follow are evaluated in
\* the frame the try was evaluated in, and a name the body defined is not
\* visible there.
C8_Original ==
    last.tag = "try" =>
        /\ cur = last.precur
        /\ ~Scope_lookup(last.pre, last.precur, "y").found =>
              ~Scope_lookup(mem, cur, "y").found

(***************************************************************************)
(* The order of a Call, and the Calls that fail.                           *)
(***************************************************************************)
\* (do (print s) e): writes s, yields e
Said(str, e) == App("do", <<App("print", <<StrE(str)>>), e>>)

OrderHeads == {"+", "*"}
OrderArity == {1, 2}

\* ((do (print "h") op) (do (print "a") 1) (do (print "b") 2))
OrderProgram(op, n) ==
    CallE(<<Said("h", NameE(op))>>
          \o SubSeq(<<Said("a", NumE(1)), Said("b", NumE(2))>>, 1, n))

CallOrder ==
    /\ status = "running"
    /\ \E op \in OrderHeads, n \in OrderArity :
          Parse(OrderProgram(op, n), "order", [op |-> op, n |-> n])

ErrKinds == {"head", "arg", "arghead", "empty", "num", "str", "bool", "none", "port"}

ErrProgram(kind) ==
    CASE kind = "head" -> CallE(<<NameE("nosuch"), App("print", <<StrE("a")>>)>>)
      [] kind = "arg" -> App("print", <<StrE("p"), Raise7, App("print", <<StrE("b")>>)>>)
      [] kind = "arghead" -> CallE(<<Said("h", NameE("+")), Raise7>>)
      [] kind = "empty" -> CallE(<<>>)
      [] kind = "num" -> CallE(<<NumE(5), NumE(1)>>)
      [] kind = "str" -> CallE(<<StrE("s"), NumE(1)>>)
      [] kind = "bool" -> CallE(<<NameE("true"), NumE(1)>>)
      [] kind = "none" -> CallE(<<NameE("none"), NumE(1)>>)
      [] OTHER -> CallE(<<NameE("stdout"), NumE(1)>>)

CallErr ==
    /\ status = "running"
    /\ \E kind \in ErrKinds : Parse(ErrProgram(kind), "callerr", StrV(kind))

NextCall == CallOrder \/ CallErr \/ Eval

SpecCall == Init /\ [][NextCall]_vars

\* what the last step wrote
Written == SubSeq(mem.out, Len(last.pre.out) + 1, Len(mem.out))

\* every Call of the last step evaluated its head before its arguments
LogHeadFirst ==
    \A p, q \in 1..Len(mem.log) :
        (p < q /\ mem.log[p][1] = mem.log[q][1]) =>
            /\ mem.log[p][2] # -1
            /\ mem.log[q][2] # 0
            /\ (mem.log[p][2] >= 1 /\ mem.log[q][2] >= 1) => mem.log[p][2] < mem.log[q][2]

\* every Call of the last step evaluated its arguments before its head
LogArgsFirst ==
    \A p, q \in 1..Len(mem.log) :
        (p < q /\ mem.log[p][1] = mem.log[q][1]) =>
            /\ mem.log[p][2] # -1
            /\ mem.log[p][2] = 0 => mem.log[q][2] = -1
            /\ (mem.log[p][2] >= 1 /\ mem.log[q][2] >= 1) => mem.log[p][2] < mem.log[q][2]

\* 1, 1 + 2 or 1 * 2
OrderValue ==
    IF last.arg.n = 1 THEN NumV(1) ELSE IF last.arg.op = "+" THEN NumV(3) ELSE NumV(2)

\* C9 as stated: the head is evaluated first, then the arguments left to
\* right, then the callee is applied; the head's output comes first.
C9_Original ==
    /\ LogHeadFirst
    /\ last.tag = "order" =>
          /\ last.ok
          /\ Written = <<"h", "\n">> \o SubSeq(<<"a", "\n", "b", "\n">>, 1, 2 * last.arg.n)

\* C9, amended: the arguments are evaluated first, strictly left to right,
\* then the head, and only then is the callee applied; the output of
\* argument i comes before that of argument j for i < j, and the head's
\* output comes after that of every argument.
C9_ArgsThenHead ==
    /\ LogArgsFirst
    /\ last.tag = "order" =>
          /\ last.ok
          /\ Written = SubSeq(<<"a", "\n", "b", "\n">>, 1, 2 * last.arg.n) \o <<"h", "\n">>
          /\ last.val = OrderValue

\* a Call with two arguments and a head that all write has been evaluated
C9_Witness ==
    /\ last.tag = "order" /\ last.arg.n = 2 /\ last.ok
    /\ Len(Written) = 6
    /\ <<1, -1>> \in {mem.log[i] : i \in 1..Len(mem.log)}

ErrMessage(kind) ==
    CASE kind = "head" -> ErrNoVariable("nosuch")
      [] kind \in {"arg", "arghead"} -> NumV(7)
      [] kind = "empty" -> StackTrace_from_str("Call list has no elements")
      [] OTHER -> StackTrace_from_str("Attempt to call non-function")

\* the outermost Call of the last step did not apply its callee
NotApplied == <<1, -1>> \notin {mem.log[i] : i \in 1..Len(mem.log)}

\* C10 as stated: the failing child is the last child evaluated (the head
\* being the first child), the callee is not applied, the result is the
\* error.
C10_Original ==
    last.tag = "callerr" =>
        /\ ~last.ok /\ ~last.panic
        /\ last.val = ErrMessage(last.arg.s)
        /\ NotApplied
        /\ Written = (IF last.arg.s = "arghead" THEN <<"h", "\n">> ELSE <<>>)

\* C10, amended: the children are evaluated arguments first, left to right,
\* then the head.  The child that raises is the last one evaluated, so an
\* argument that raises stops the later arguments and the head, while a head
\* that raises has all arguments evaluated before it; the callee is not
\* applied and the result is the error.  An empty Call fails with "Call list
\* has no elements", a String, Number, Bool, None or Port callee with
\* "Attempt to call non-function".
C10_ErrorEndsCall ==
    last.tag = "callerr" =>
        /\ ~last.ok /\ ~last.panic
        /\ last.val = ErrMessage(last.arg.s)
        /\ NotApplied
        /\ Written = (IF last.arg.s = "head" THEN <<"a", "\n">> ELSE <<>>)

\* a Call whose head is unbound has failed after its argument wrote
C10_Witness ==
    /\ last.tag = "callerr" /\ last.arg = StrV("head")
    /\ ~last.ok
    /\ Written = <<"a", "\n">>

(***************************************************************************)
(* Errors that unwind through nested Calls.                                *)
(***************************************************************************)
TraceKinds == {"nested", "sibling", "lambda", "block", "lookup", "rethrow", "nonfunc"}

\* the Calls of each program are numbered in the order they are entered
TraceProgram(kind) ==
    CASE kind = "nested" -> App("+", <<NumE(1), App("*", <<NumE(2), Raise7>>)>>)
      [] kind = "sibling" -> App("+", <<App("*", <<NumE(1), NumE(2)>>), Raise7>>)
      [] kind = "lambda" -> CallE(<<App("lambda", <<QuoteE(<<Raise7>>)>>)>>)
      [] kind = "block" ->
            App("if", <<NameE("true"), QuoteE(<<App("*", <<NumE(2), NumE(2)>>), Raise7>>)>>)
      [] kind = "lookup" -> App("+", <<NumE(1), NameE("nosuch")>>)
      [] kind = "rethrow" ->
            App("+", <<NumE(1),
                       App("try", <<QuoteE(<<Raise7>>),
                                    App("lambda", <<StrE("e"),
                                                    QuoteE(<<App("error", <<NameE("e")>>)>>)>>)>>)>>)
      [] OTHER -> App("+", <<NumE(1), CallE(<<NumE(5), NumE(1)>>)>>)

\* the Calls that enclose the point of the error, innermost first
EnclosingCalls(kind) ==
    CASE kind = "nested" -> <<3, 2, 1>>
      [] kind \in {"sibling", "lambda", "block"} -> <<3, 1>>
      [] kind = "lookup" -> <<1>>
      [] kind = "rethrow" -> <<5, 2, 1>>
      [] OTHER -> <<2, 1>>

Unwind ==
    /\ status = "running"
    /\ \E kind \in TraceKinds : Parse(TraceProgram(kind), "unwind", StrV(kind))

NextTrace == DefX \/ Unwind \/ Eval

SpecTrace == Init /\ [][NextTrace]_vars

\* C11: an error that reaches the top level carries the location of every
\* Call that encloses the point where it was raised, once each, innermost
\* first; Calls that had returned before it was raised, and Calls an error
\* caught earlier had passed through, are not in it.
C11_TraceInnermostFirst ==
    /\ last.ok => last.trace = <<>>
    /\ last.tag = "unwind" =>
          /\ ~last.ok
          /\ last.trace = EnclosingCalls(last.arg.s)

\* an error raised after a sibling Call had returned has reached the top
C11_Witness ==
    /\ last.tag = "unwind" /\ last.arg = StrV("sibling")
    /\ ~last.ok /\ last.val = NumV(7)
    /\ Len(last.trace) = 2

(***************************************************************************)
(* A lazy variable whose function writes and reads n.                      *)
(***************************************************************************)
NValues == {0, 1, 2}

DefN ==
    /\ status = "running"
    /\ \E v \in NValues : Parse(App("def", <<StrE("n"), NumE(v)>>), "defn", NumV(v))

\* {(print "f") (if (<= n 0) {(error 7)} {n})}
LazyBody ==
    QuoteE(<<App("print", <<StrE("f")>>),
             App("if", <<App("<=", <<NameE("n"), NumE(0)>>),
                         QuoteE(<<Raise7>>), QuoteE(<<NameE("n")>>)>>)>>)

DefC ==
    /\ status = "running"
    /\ Parse(App("def", <<StrE("c"), App("lazy", <<LazyBody>>)>>), "defc", NoneV)

\* (try {c} (lambda 'e {'failed}))
ReadC ==
    /\ status = "running"
    /\ Parse(App("try", <<QuoteE(<<NameE("c")>>),
                          App("lambda", <<StrE("e"), QuoteE(<<StrE("failed")>>)>>)>>),
             "readc", NoneV)

NextLazy == DefN \/ DefC \/ ReadC \/ Eval

SpecLazy == Init /\ [][NextLazy]_vars

CBound == Scope_lookup(last.pre, last.precur, "c").found

\* the earlier lookups of the lazy variable c is bound to now that got a value
ForcedBefore ==
    {i \in 1..(Len(trail) - 1) :
        /\ trail[i][1] = "readc"
        /\ trail[i][4] # StrV("failed")
        /\ \E d \in 1..(i - 1) : trail[d][1] = "defc"
        /\ \A d \in (i + 1)..(Len(trail) - 1) : trail[d][1] # "defc"}

\* C12 as stated: once a lookup has forced the variable, a later lookup does
\* not call f (f writes nothing) and yields the value of the first one.
C12_Original ==
    (last.tag = "readc" /\ CBound) =>
        \A i \in ForcedBefore : Written = <<>> /\ last.val = trail[i][4]

\* C12, amended: every lookup of the variable calls f, also after a lookup
\* that got a value, and yields what that call returns (here the value n
\* has at the time of the lookup); a lookup during which f raises fails, and
\* the next lookup calls f again.
C12_ForcedEveryLookup ==
    (last.tag = "readc" /\ CBound) =>
        /\ last.ok
        /\ Written = <<"f", "\n">>
        /\ LET n == Scope_lookup(last.pre, last.precur, "n")
           IN last.val = (IF n.found /\ n.val.n > 0 THEN n.val ELSE StrV("failed"))

\* the variable has been looked up a second time after a lookup that got a
\* value, and f has written again
C12_Witness ==
    /\ last.tag = "readc" /\ CBound /\ last.ok
    /\ ForcedBefore # {}
    /\ last.val = NumV(1)
    /\ Written = <<"f", "\n">>

(***************************************************************************)
(* Calls of a two-parameter lambda with zero to three arguments.           *)
(***************************************************************************)
ArgCounts == 0..3

\* (def 'g (lambda 'x 'y {(print "body") (+ x y)}))
DefG ==
    /\ status = "running"
    /\ Parse(App("def", <<StrE("g"),
                          App("lambda", <<StrE("x"), StrE("y"),
                                          QuoteE(<<App("print", <<StrE("body")>>),
                                                   App("+", <<NameE("x"), NameE("y")>>)>>)>>)>>),
             "defg", NoneV)

\* (g), (g 1), (g 1 2), (g 1 2 3)
CallG ==
    /\ status = "running"
    /\ \E n \in ArgCounts :
          Parse(App("g", SubSeq(<<NumE(1), NumE(2), NumE(3)>>, 1, n)), "callg", NumV(n))

NextArity == DefX \/ DefG \/ CallG \/ Eval

SpecArity == Init /\ [][NextArity]_vars

\* C13: a call of the two-parameter lambda g with two arguments evaluates
\* the body with the parameters bound, and leaves every frame that existed
\* before the call, the captured one included, as it was (x keeps the value
\* the top level gave it, y stays unbound); with any other number of
\* arguments the call fails with an arity error, the body writes nothing and
\* no frame changes.
C13_LambdaArity ==
    (last.tag = "callg" /\ Scope_lookup(last.pre, last.precur, "g").found) =>
        /\ FramesKept
        /\ IF last.arg.n = 2
           THEN last.ok /\ last.val = NumV(3) /\ Written = <<"body", "\n">>
           ELSE /\ ~last.ok
                /\ last.val = (IF last.arg.n < 2 THEN ErrNotEnoughArgs ELSE ErrTooManyArgs)
                /\ Written = <<>>

\* g was called with two arguments while the top level bound x to 50
C13_Witness ==
    /\ last.tag = "callg" /\ last.arg = NumV(2) /\ last.ok
    /\ Scope_lookup(mem, cur, "x") = [found |-> TRUE, val |-> NumV(50)]
    /\ ~Scope_lookup(mem, cur, "y").found

(***************************************************************************)
(* Lookups by calling a list or a dict.                                    *)
(***************************************************************************)
\* the parser's dot-call: name.atom is the Call (name atom), an identifier
\* after the dot being taken as a string (d.x is (d 'x))
DotCall(name, atom) ==
    CallE(<<NameE(name), IF atom.k = "name" THEN StrE(atom.s) ELSE atom>>)

Indexes == {-1, 0, 2, 3}
Keys == {"a", "b", "z"}

\* (l i) or l.i; (d 'k) or d.k
CallL ==
    /\ status = "running"
    /\ Len(trail) < MaxLookupSteps
    /\ \E i \in Indexes, dot \in BOOLEAN :
          Parse(IF dot THEN DotCall("l", NumE(i)) ELSE App("l", <<NumE(i)>>),
                "calll", NumV(i))

CallD ==
    /\ status = "running"
    /\ Len(trail) < MaxLookupSteps
    /\ \E k \in Keys, dot \in BOOLEAN :
          Parse(IF dot THEN DotCall("d", NameE(k)) ELSE App("d", <<StrE(k)>>),
                "calld", StrV(k))

\* ((list) i) and ((dict) 'k)
CallEmpty ==
    /\ status = "running"
    /\ Len(trail) < MaxLookupSteps
    /\ \/ \E i \in Indexes : Parse(CallE(<<App("list", <<>>), NumE(i)>>), "callempty", NumV(i))
       \/ \E k \in Keys : Parse(CallE(<<App("dict", <<>>), StrE(k)>>), "callempty", StrV(k))

NextLookup == DefL \/ DefD \/ CallL \/ CallD \/ CallEmpty \/ Eval

SpecLookup == Init /\ [][NextLookup]_vars

\* C14: with l bound to (list 1 2 3), (l i) and l.i yield the element at i
\* for i in 0..2 and none for any other i; with d bound to (dict 'a 1 'b 2),
\* (d 'k) and d.k yield the value at k for a and b and none for any other
\* key; the empty list and the empty dict yield none; none of them fails.
C14_LookupNeverRaises ==
    /\ (last.tag = "calll" /\ Scope_lookup(last.pre, last.precur, "l").found) =>
          /\ last.ok
          /\ last.val = (IF last.arg.n \in 0..2 THEN NumV(last.arg.n + 1) ELSE NoneV)
    /\ (last.tag = "calld" /\ Scope_lookup(last.pre, last.precur, "d").found) =>
          /\ last.ok
          /\ last.val = (CASE last.arg.s = "a" -> NumV(1)
                           [] last.arg.s = "b" -> NumV(2)
                           [] OTHER -> NoneV)
    /\ last.tag = "callempty" => last.ok /\ last.val = NoneV

\* l.3, one past the end of the list, has yielded none
C14_Witness ==
    /\ last.tag = "calll" /\ last.arg = NumV(3)
    /\ last.expr = DotCall("l", NumE(3))
    /\ Scope_lookup(last.pre, last.precur, "l").found
    /\ last.ok /\ last.val = NoneV

(***************************************************************************)
(* == and != over values written out in place.                             *)
(***************************************************************************)
NaNE == App("/", <<NumE(0), NumE(0)>>)

EqPool ==
    <<NameE("none"), NameE("true"), NumE(11), StrE("11"), App("+", <<NumE(1), NumE(10)>>),
      NaNE,
      App("list", <<NumE(1), App("list", <<NumE(2)>>)>>),
      App("list", <<NumE(1), App("list", <<NumE(3)>>)>>),
      App("dict", <<StrE("a"), App("list", <<NumE(1)>>)>>),
      App("dict", <<StrE("a"), App("list", <<NumE(2)>>)>>),
      App("list", <<NaNE>>)>>

\* two entries are written the same way up to arithmetic iff they have the
\* same shape number; entries 6 and 11 contain NaN
Shape == <<1, 2, 3, 4, 3, 5, 6, 7, 8, 9, 10>>
HasNaN(i) == i \in {6, 11}

EqIdx == 1..Len(EqPool)
EqTriple == {3, 4, 5}

PoolArgs(idxs) == [n \in 1..Len(idxs) |-> EqPool[idxs[n]]]

\* (==), (== a), (== a b), (== a b c)
Equals ==
    /\ status = "running"
    /\ Len(trail) < MaxEqSteps
    /\ \E idxs \in {<<>>} \cup {<<i>> : i \in EqIdx} \cup (EqIdx \X EqIdx)
                   \cup (EqTriple \X EqTriple \X EqTriple) :
          Parse(App("==", PoolArgs(idxs)), "equals", idxs)

\* (!= a b)
NotEquals ==
    /\ status = "running"
    /\ Len(trail) < MaxEqSteps
    /\ \E idxs \in EqTriple \X EqIdx : Parse(App("!=", PoolArgs(idxs)), "nequals", idxs)

NextEquals == Equals \/ NotEquals \/ Eval

SpecEquals == Init /\ [][NextEquals]_vars

Reversed(idxs) == [n \in 1..Len(idxs) |-> idxs[Len(idxs) + 1 - n]]

Symmetric ==
    eval(App("==", PoolArgs(Reversed(last.arg))), last.precur, last.pre).val = last.val

MapKinds == {"one", "two", "neg"}

\* (lambda 'x {[x * 10]}), (lambda 'x 'i {[x * 10]}), -
MapTransform(kind) ==
    CASE kind = "one" ->
            App("lambda", <<StrE("x"), QuoteE(<<App("*", <<NameE("x"), NumE(10)>>)>>)>>)
      [] kind = "two" -> Times10
      [] OTHER -> NameE("-")

\* (list-map l f) and (list-map (list 1 2 3) f)
MapL ==
    /\ status = "running"
    /\ \E kind \in MapKinds, inline \in BOOLEAN :
          Parse(App("list-map", <<IF inline THEN List123 ELSE NameE("l"), MapTransform(kind)>>),
                "map", [kind |-> kind, inline |-> inline])

NextMap == DefL \/ DefM \/ MapL \/ Eval

SpecMap == Init /\ [][NextMap]_vars

\* the transform applied to 1, 2 and 3, each alone
Mapped(kind) ==
    [t |-> "list",
     items |-> IF kind = "neg" THEN <<NumV(-1), NumV(-2), NumV(-3)>>
               ELSE <<NumV(10), NumV(20), NumV(30)>>]

\* C16 as stated: list-map of (list 1 2 3) succeeds and yields the list of
\* the transform applied to each element, for the one-parameter lambda too.
C16_Original ==
    (last.tag = "map" /\ (last.arg.inline \/ Scope_lookup(last.pre, last.precur, "l").found)) =>
        /\ last.ok
        /\ Deep(mem, last.val) = Mapped(last.arg.kind)

(***************************************************************************)
(* dict-mutate against dict-set.                                           *)
(***************************************************************************)
DictAB == App("dict", <<StrE("a"), NumE(1), StrE("b"), NumE(2)>>)

DictMutKeys == {"a", "z"}
DictMutKinds == {"add", "lambda"}

\* + 5, or (lambda 'v {(print "f") (* v 2)})
DictMutCallee(kind) ==
    IF kind = "add" THEN <<NameE("+"), NumE(5)>>
    ELSE <<App("lambda", <<StrE("v"), QuoteE(<<App("print", <<StrE("f")>>),
                                                App("*", <<NameE("v"), NumE(2)>>)>>)>>)>>

DictMutOn(inline) == IF inline THEN DictAB ELSE NameE("d")

\* (dict-mutate d 'k f args...)
DictMutateForm(a) ==
    App("dict-mutate", <<DictMutOn(a.inline), StrE(a.key)>> \o DictMutCallee(a.kind))

\* (dict-set d 'k (f (d 'k) args...))
DictSetForm(a) ==
    App("dict-set",
        <<DictMutOn(a.inline), StrE(a.key),
          CallE(<<Head(DictMutCallee(a.kind)), CallE(<<DictMutOn(a.inline), StrE(a.key)>>)>>
                \o Tail(DictMutCallee(a.kind)))>>)

DictMut ==
    /\ status = "running"
    /\ \E key \in DictMutKeys, kind \in DictMutKinds, inline \in BOOLEAN :
          Parse(DictMutateForm([key |-> key, kind |-> kind, inline |-> inline]), "dictmut",
                [key |-> key, kind |-> kind, inline |-> inline])

NextDictMut == DefD \/ DefE \/ DictMut \/ Eval

SpecDictMut == Init /\ [][NextDictMut]_vars

HeapKept == \A h \in 1..Len(last.pre.heap) : mem.heap[h] = last.pre.heap[h]

\* C17: with d (dict 'a 1 'b 2), written out or bound to a name,
\* (dict-mutate d 'a f args...) yields a dict with the contents of
\* (dict-set d 'a (f (d 'a) args...)): a maps to f's result, b still to 2;
\* f is called once; no dict that existed before changes.  With the absent
\* key z it fails with "Variable 'z' doesn't exist", f is not called and no
\* dict changes.
C17_DictMutateAsSet ==
    (last.tag = "dictmut" /\ (last.arg.inline \/ Scope_lookup(last.pre, last.precur, "d").found))
    => /\ HeapKept
       /\ FramesKept
       /\ IF last.arg.key = "a"
          THEN LET s == eval(DictSetForm(last.arg), last.precur, last.pre)
               IN /\ last.ok /\ s.ok
                  /\ Deep(mem, last.val) = Deep(s.m, s.val)
                  /\ Deep(mem, last.val) =
                        [t |-> "dict",
                         map |-> [k \in {"a", "b"} |->
                                    IF k = "b" THEN NumV(2)
                                    ELSE IF last.arg.kind = "add" THEN NumV(6) ELSE NumV(2)]]
                  /\ Written = (IF last.arg.kind = "add" THEN <<>> ELSE <<"f", "\n">>)
          ELSE /\ ~last.ok
               /\ last.val = ErrNoVariable("z")
               /\ Written = <<>>

\* the dict two names hold has gone through dict-mutate with the lambda
C17_Witness ==
    /\ last.tag = "dictmut" /\ last.ok
    /\ last.arg = [key |-> "a", kind |-> "lambda", inline |-> FALSE]
    /\ Scope_lookup(last.pre, last.precur, "e").found
    /\ Deep(mem, Scope_lookup(mem, cur, "e").val) =
          [t |-> "dict", map |-> [k \in {"a", "b"} |-> IF k = "a" THEN NumV(1) ELSE NumV(2)]]

(***************************************************************************)
(* list-remove and list-insert on (list 1 2 3).                            *)
(***************************************************************************)
SpliceIndexes == {0, 1, 2, 3}
RemoveEnds == {<<>>, <<0>>, <<1>>, <<3>>, <<4>>}

NumEs(ns) == [i \in 1..Len(ns) |-> NumE(ns[i])]
NumVs(ns) == [i \in 1..Len(ns) |-> NumV(ns[i])]

SpliceOn(inline) == IF inline THEN List123 ELSE NameE("l")

\* the list-remove and list-insert expressions evaluated so far
Spliced == Cardinality({i \in 1..Len(trail) : trail[i][1] \in {"remove", "insert"}})

\* (list-remove l idx) and (list-remove l idx end)
RemoveL ==
    /\ status = "running"
    /\ Spliced < MaxSpliceSteps
    /\ \E idx \in SpliceIndexes, end \in RemoveEnds, inline \in BOOLEAN :
          Parse(App("list-remove", <<SpliceOn(inline), NumE(idx)>> \o NumEs(end)),
                "remove", [idx |-> idx, end |-> end, inline |-> inline])

NextRemove == DefL \/ DefM \/ RemoveL \/ Eval

SpecRemove == Init /\ [][NextRemove]_vars

\* the list 1 2 3 is there to be removed from
RemoveApplies ==
    /\ last.tag = "remove"
    /\ last.arg.inline \/ Scope_lookup(last.pre, last.precur, "l").found

\* one past the last position to remove
RemoveEnd == IF last.arg.end = <<>> THEN last.arg.idx + 1 ELSE last.arg.end[1]

\* 1 2 3 without the positions idx (inclusive) up to end (exclusive)
RemoveExpected ==
    [t |-> "list",
     items |-> NumVs(SelectSeq(<<1, 2, 3>>,
                               LAMBDA n : ~(last.arg.idx < n /\ n <= RemoveEnd)))]

\* C18 as stated: (list-remove l idx) and (list-remove l idx end) on
\* (list 1 2 3) yield the list without the positions idx (inclusive) up to
\* end (exclusive), the others in their order; with idx >= 3 the call fails
\* with "Index out of bounds"; no list that existed before changes.
C18_Original ==
    RemoveApplies =>
        /\ HeapKept
        /\ FramesKept
        /\ IF last.arg.idx >= 3
           THEN ~last.ok /\ ~last.panic /\ last.val = StackTrace_from_str("Index out of bounds")
           ELSE last.ok /\ Deep(mem, last.val) = RemoveExpected

\* C18 where the range lies inside the list (idx <= end <= 3): the result is
\* as stated; a range that is reversed or runs past the end stops the
\* evaluator instead.
C18_RemoveInRange ==
    RemoveApplies =>
        /\ HeapKept
        /\ FramesKept
        /\ IF last.arg.idx >= 3
           THEN ~last.ok /\ ~last.panic /\ last.val = StackTrace_from_str("Index out of bounds")
           ELSE IF last.arg.idx <= RemoveEnd /\ RemoveEnd <= 3
           THEN last.ok /\ Deep(mem, last.val) = RemoveExpected
           ELSE last.panic

\* (list-remove l 1 3) on the list two names hold has yielded (list 1)
C18_Witness ==
    /\ RemoveApplies /\ ~last.arg.inline
    /\ last.arg.idx = 1 /\ last.arg.end = <<3>>
    /\ Scope_lookup(last.pre, last.precur, "m").found
    /\ last.ok /\ Deep(mem, last.val) = [t |-> "list", items |-> <<NumV(1)>>]

\* (list-remove l 1 4): the range runs one past the end of the list
C18_PastEnd ==
    /\ RemoveApplies
    /\ last.arg.idx = 1 /\ last.arg.end = <<4>>
    /\ last.panic

InsertValues == {<<7>>, <<7, 8>>}
InsertTargets == {"l", "inline", "empty"}

\* (list-insert l idx v1..vk), on l, on (list 1 2 3) and on (list)
InsertL ==
    /\ status = "running"
    /\ Spliced < MaxSpliceSteps
    /\ \E idx \in SpliceIndexes, vals \in InsertValues, on \in InsertTargets :
          Parse(App("list-insert",
                    <<IF on = "empty" THEN App("list", <<>>) ELSE SpliceOn(on = "inline"),
                      NumE(idx)>> \o NumEs(vals)),
                "insert", [idx |-> idx, vals |-> vals, on |-> on])

NextInsert == DefL \/ DefM \/ InsertL \/ Eval

SpecInsert == Init /\ [][NextInsert]_vars

\* the numbers of the list inserted into
InsertBase == IF last.arg.on = "empty" THEN <<>> ELSE <<1, 2, 3>>

\* C19: (list-insert l idx v1..vk), with l (list 1 2 3) bound to a name or
\* written out, or the empty list, yields l[0..idx] ++ [v1..vk] ++ l[idx..]:
\* v1 is at index idx and the length is len(l)+k; with idx >= len(l), so
\* for idx = len(l) and for every idx on the empty list, it fails with
\* "Index out of bounds"; no list that existed before changes.
C19_InsertAtIndex ==
    (last.tag = "insert" /\ (last.arg.on # "l" \/ Scope_lookup(last.pre, last.precur, "l").found))
    => LET idx == last.arg.idx
           len == Len(InsertBase)
           got == Deep(mem, last.val)
       IN /\ HeapKept
          /\ FramesKept
          /\ IF idx >= len
             THEN ~last.ok /\ ~last.panic
                  /\ last.val = StackTrace_from_str("Index out of bounds")
             ELSE /\ last.ok
                  /\ got = [t |-> "list",
                            items |-> NumVs(SubSeq(InsertBase, 1, idx) \o last.arg.vals
                                            \o SubSeq(InsertBase, idx + 1, len))]
                  /\ got.items[idx + 1] = NumV(last.arg.vals[1])
                  /\ Len(got.items) = len + Len(last.arg.vals)

\* (list-insert l 2 7 8) on the list two names hold has yielded
\* (list 1 2 7 8 3), and m is still (list 1 2 3)
C19_Witness ==
    /\ last.tag = "insert" /\ last.arg = [idx |-> 2, vals |-> <<7, 8>>, on |-> "l"]
    /\ Scope_lookup(last.pre, last.precur, "m").found
    /\ last.ok
    /\ Deep(mem, last.val) = [t |-> "list", items |-> NumVs(<<1, 2, 7, 8, 3>>)]
    /\ Deep(mem, Scope_lookup(mem, cur, "m").val) = [t |-> "list", items |-> NumVs(<<1, 2, 3>>)]

(***************************************************************************)
(* match over blocks whose conditions and bodies print.                    *)
(***************************************************************************)
CaseKinds == {"empty", "false", "zero", "true", "x10", "error", "badbody"}

Label(c, i) == c \o NumToStr(i)

\* the i-th block of a match: its condition prints p<i>, its body b<i>
CaseBlock(kind, i) ==
    CASE kind = "empty" -> QuoteE(<<>>)
      [] kind = "false" ->
            QuoteE(<<Said(Label("p", i), NameE("false")),
                     App("print", <<StrE(Label("b", i))>>), NumE(i)>>)
      [] kind = "zero" -> QuoteE(<<Said(Label("p", i), NumE(0))>>)
      [] kind = "true" ->
            QuoteE(<<Said(Label("p", i), NameE("true")),
                     App("print", <<StrE(Label("b", i))>>),
                     App("def", <<StrE("y"), NumE(i)>>),
                     App("+", <<NameE("y"), NumE(i)>>)>>)
      [] kind = "x10" ->
            QuoteE(<<Said(Label("p", i), App("==", <<NameE("x"), NumE(10)>>)),
                     App("print", <<StrE(Label("b", i))>>), NumE(i)>>)
      [] kind = "error" -> QuoteE(<<Said(Label("p", i), Raise7), NumE(i)>>)
      [] OTHER ->
            QuoteE(<<Said(Label("p", i), NameE("true")),
                     App("print", <<StrE(Label("b", i))>>),
                     Raise7,
                     App("print", <<StrE(Label("c", i))>>)>>)

MatchCases == {<<>>} \cup {<<k>> : k \in CaseKinds} \cup {<<k1, k2>> : k1, k2 \in CaseKinds}

\* (match {...} {...})
Match ==
    /\ status = "running"
    /\ Cardinality({i \in 1..Len(trail) : trail[i][1] = "match"}) < MaxMatchSteps
    /\ \E ks \in MatchCases :
          Parse(App("match", [i \in 1..Len(ks) |-> CaseBlock(ks[i], i)]), "match", ks)

NextMatch == FirstDefX \/ Match \/ Eval

SpecMatch == Init /\ [][NextMatch]_vars

\* x as the match finds it: <<>> when unbound
MatchX ==
    LET l == Scope_lookup(last.pre, last.precur, "x")
    IN IF l.found THEN <<l.val>> ELSE <<>>

\* the condition of a block of this kind yields a value, and a truthy one
CaseYields(kind) == kind \in {"false", "zero", "true", "badbody"} \/ (kind = "x10" /\ MatchX # <<>>)
CaseTruthy(kind) == kind \in {"zero", "true", "badbody"} \/ (kind = "x10" /\ MatchX = <<NumV(10)>>)

\* the block the match stops at: the first whose condition is truthy or
\* does not yield, Len + 1 when there is none
MatchStop ==
    LET ks == last.arg
        stops == {i \in 1..Len(ks) : ~CaseYields(ks[i]) \/ CaseTruthy(ks[i])}
    IN IF stops = {} THEN Len(ks) + 1 ELSE CHOOSE i \in stops : \A j \in stops : i <= j

Line(str) == <<str, "\n">>

RECURSIVE ConditionLines(_)
ConditionLines(n) == IF n = 0 THEN <<>> ELSE ConditionLines(n - 1) \o Line(Label("p", n))

\* C20: the conditions are evaluated in argument order in the scope of the
\* call up to the first truthy one and no further (the output holds p1..pj
\* and no later p); the rest of block j is then evaluated in order in that
\* scope (b<j> is printed, y is bound in the current frame) and its last
\* value returned, none when the block has only its condition; with no
\* truthy condition the result is none; an empty block that is reached, a
\* failing condition and a failing body expression end the match with
\* their error, nothing after them being evaluated.
C20_MatchFirstTruthy ==
    last.tag = "match" =>
        LET ks == last.arg
            j == MatchStop
        IN /\ HeapKept
           /\ IF j > Len(ks)
              THEN /\ last.ok /\ last.val = NoneV
                   /\ Written = ConditionLines(Len(ks))
                   /\ FramesKept
              ELSE CASE ks[j] = "empty" ->
                          /\ ~last.ok
                          /\ last.val = StackTrace_from_str("Blocks must have at least 1 element")
                          /\ Written = ConditionLines(j - 1)
                          /\ FramesKept
                     [] ks[j] = "error" ->
                          /\ ~last.ok /\ last.val = NumV(7)
                          /\ Written = ConditionLines(j)
                          /\ FramesKept
                     [] ks[j] = "zero" ->
                          /\ last.ok /\ last.val = NoneV
                          /\ Written = ConditionLines(j)
                          /\ FramesKept
                     [] ks[j] = "true" ->
                          /\ last.ok /\ last.val = NumV(2 * j)
                          /\ Written = ConditionLines(j) \o Line(Label("b", j))
                          /\ cur = last.precur
                          /\ Scope_lookup_shallow(mem, cur, "y") = [found |-> TRUE, val |-> NumV(j)]
                     [] ks[j] = "badbody" ->
                          /\ ~last.ok /\ last.val = NumV(7)
                          /\ Written = ConditionLines(j) \o Line(Label("b", j))
                          /\ FramesKept
                     [] OTHER ->
                          IF MatchX = <<>>
                          THEN /\ ~last.ok /\ last.val = ErrNoVariable("x")
                               /\ Written = ConditionLines(j)
                               /\ FramesKept
                          ELSE /\ last.ok /\ last.val = NumV(j)
                               /\ Written = ConditionLines(j) \o Line(Label("b", j))
                               /\ FramesKept

\* the second condition was the first truthy one: p1, p2 and b2 are
\* printed, y is 2 and the value is 4
C20_Witness ==
    /\ last.tag = "match" /\ last.arg = <<"x10", "true">>
    /\ MatchX = <<NumV(50)>>
    /\ last.ok /\ last.val = NumV(4)
    /\ Written = <<"p1", "\n", "p2", "\n", "b2", "\n">>

(***************************************************************************)
(* The display form of an Expression (ast.rs).                             *)
(***************************************************************************)
\* Debug for BString: the bytes between double quotes, the non-printable
\* ones escaped
RECURSIVE BString_escaped(_)
BString_escaped(s) ==
    IF s = "" THEN ""
    ELSE (CASE Head(s) = "\n" -> "\\n"
            [] Head(s) = "\t" -> "\\t"
            [] OTHER -> Head(s)) \o BString_escaped(Tail(s))

BString_debug(s) == "\"" \o BString_escaped(s) \o "\""

RECURSIVE Expression_display(_)
RECURSIVE DisplayChildren(_, _)
DisplayChildren(exprs, first) ==
    IF exprs = <<>> THEN ""
    ELSE (IF first THEN "" ELSE " ") \o Expression_display(exprs[1])
         \o DisplayChildren(Tail(exprs), FALSE)

Expression_display(e) ==
    CASE e.k = "str" -> BString_debug(e.s)
      [] e.k = "num" -> NumToStr(e.n)
      [] e.k = "name" -> e.s
      [] e.k = "call" -> "(" \o DisplayChildren(e.ch, TRUE) \o ")"
      [] OTHER -> "'(" \o DisplayChildren(e.ch, TRUE) \o ")"

(***************************************************************************)
(* A whole run of main: the file is read one expression at a time.         *)
(***************************************************************************)
SayWords == {"a", "b"}

\* (print "a")
RunSay ==
    /\ status = "running"
    /\ \E w \in SayWords : Parse(App("print", <<StrE(w)>>), "say", StrV(w))

\* (print x)
RunShow ==
    /\ status = "running"
    /\ Parse(App("print", <<NameE("x")>>), "show", NoneV)

\* (error 7)
RunRaise ==
    /\ status = "running"
    /\ Parse(Raise7, "raise", NoneV)

\* parse::parse fails on the text that comes next: process::exit(1)
ParseError ==
    /\ status = "running"
    /\ pending.tag = "none"
    /\ Len(trail) < MaxSteps
    /\ status' = "exited"
    /\ trail' = Append(trail, <<"parseerror", NoneV, FALSE, NoneV>>)
    /\ UNCHANGED <<mem, cur, pending, last, print_ast>>

\* parse::parse finds the end of the file: the loop breaks, main returns
EndOfInput ==
    /\ status = "running"
    /\ pending.tag = "none"
    /\ status' = "done"
    /\ UNCHANGED <<mem, cur, pending, last, trail, print_ast>>

\* println!("{}", expr) under --print-ast
PrintAst ==
    /\ status = "running"
    /\ print_ast
    /\ pending.tag # "none"
    /\ mem' = [mem EXCEPT !.out = @ \o <<Expression_display(pending.expr), "\n">>]
    /\ trail' = Append(trail, <<pending.tag, pending.arg, TRUE, NoneV>>)
    /\ pending' = NoPending
    /\ UNCHANGED <<cur, last, status, print_ast>>

InitRun == \E flag \in BOOLEAN : Started(flag)

NextRun ==
    RunSay \/ DefX \/ RunShow \/ RunRaise \/ ParseError \/ EndOfInput \/ PrintAst \/ Eval

SpecRun == InitRun /\ [][NextRun]_vars

\* the expression of a trail entry
RunExpr(entry) ==
    CASE entry[1] = "say" -> App("print", <<StrE(entry[2].s)>>)
      [] entry[1] = "defx" -> App("def", <<StrE("x"), NumE(entry[2].n)>>)
      [] entry[1] = "show" -> App("print", <<NameE("x")>>)
      [] OTHER -> Raise7

\* what the first n expressions of the file, evaluated in order, leave:
\* x (<<>> while unbound) and the standard output
RECURSIVE RunReplay(_)
RunReplay(n) ==
    IF n = 0 THEN [x |-> <<>>, out |-> <<>>, ok |-> TRUE]
    ELSE LET before == RunReplay(n - 1)
             entry == trail[n]
         IN CASE entry[1] = "say" -> [before EXCEPT !.out = @ \o Line(entry[2].s)]
              [] entry[1] = "defx" -> [before EXCEPT !.x = <<entry[2]>>]
              [] entry[1] = "show" /\ before.x # <<>> ->
                    [before EXCEPT !.out = @ \o Line(NumToStr(before.x[1].n))]
              [] OTHER -> [before EXCEPT !.ok = FALSE]

\* the display forms of the first n expressions, one per line
RECURSIVE RunPrinted(_)
RunPrinted(n) ==
    IF n = 0 THEN <<>>
    ELSE RunPrinted(n - 1)
         \o (IF trail[n][1] = "parseerror" THEN <<>>
             ELSE Line(Expression_display(RunExpr(trail[n]))))

\* C21: the expressions are evaluated one at a time in the order of the
\* file: no expression follows a failed one, the process has exited with
\* code 1 exactly when the last expression failed to parse or to evaluate,
\* and the output and the bindings are those of all the expressions before
\* it, in order; under --print-ast the output is the display forms and
\* nothing is evaluated: no frame changes and no call is made.
C21_RunInOrder ==
    LET n == Len(trail)
    IN /\ \A i \in 1..(n - 1) : trail[i][3]
       /\ status = "exited" <=> (n > 0 /\ ~trail[n][3])
       /\ status \in {"running", "exited", "done"}
       /\ status # "running" => pending.tag = "none"
       /\ IF print_ast
          THEN /\ mem.out = RunPrinted(n)
               /\ mem.frames = InitMem.frames
               /\ mem.heap = <<>>
               /\ last.tag = "init"
               /\ \A i \in 1..n : trail[i][3] <=> trail[i][1] # "parseerror"
          ELSE /\ mem.out = RunReplay(n).out
               /\ Scope_lookup_shallow(mem, cur, "x")
                     = (IF RunReplay(n).x = <<>> THEN [found |-> FALSE, val |-> NoneV]
                        ELSE [found |-> TRUE, val |-> RunReplay(n).x[1]])
               /\ \A i \in 1..n : trail[i][3] <=> RunReplay(i).ok

\* a, then x, were printed and x bound before (error 7) ended the run
C21_Witness ==
    /\ ~print_ast
    /\ status = "exited"
    /\ Len(trail) = 4
    /\ trail[1] = <<"say", StrV("a"), TRUE, NoneV>>
    /\ trail[2] = <<"defx", NumV(10), TRUE, NoneV>>
    /\ trail[3][1] = "show"
    /\ trail[4] = <<"raise", NoneV, FALSE, NumV(7)>>
    /\ mem.out = <<"a", "\n", "10", "\n">>

\* under --print-ast (print "a") and (error 7) were printed, not evaluated
C21_PrintedOnly ==
    /\ print_ast
    /\ status = "done"
    /\ mem.out = <<"(print \"a\")", "\n", "(error 7)", "\n">>

(***************************************************************************)
(* The parser (spec 4.2), on the text that is left of the file.  A result  *)
(* is [ok, eof, expr, rest]: the next expression and the text after it,    *)
(* the end of the input, or a parse error.                                 *)
(***************************************************************************)
IsSpace(c) == c \in {" ", "\t", "\r", "\n"}
IsDigit(c) == c \in {"0", "1", "2", "3", "4", "5", "6", "7", "8", "9"}
IsIdentByte(c) == ~IsSpace(c) /\ c \notin {"(", ")", "{", "}", "[", "]", "\"", ";", "."}

ParseOk(e, rest) == [ok |-> TRUE, eof |-> FALSE, expr |-> e, rest |-> rest]
ParseEof == [ok |-> TRUE, eof |-> TRUE, expr |-> NumE(0), rest |-> ""]
ParseErr == [ok |-> FALSE, eof |-> FALSE, expr |-> NumE(0), rest |-> ""]

\* a comment runs from ; to the end of the line
RECURSIVE skip_line(_)
skip_line(t) == IF t = "" \/ Head(t) = "\n" THEN t ELSE skip_line(Tail(t))

RECURSIVE skip_space(_)
skip_space(t) ==
    IF t = "" THEN t
    ELSE IF IsSpace(Head(t)) THEN skip_space(Tail(t))
    ELSE IF Head(t) = ";" THEN skip_space(skip_line(t))
    ELSE t

\* the longest run of identifier bytes: [s, rest]
RECURSIVE read_identifier(_, _)
read_identifier(t, acc) ==
    IF t # "" /\ IsIdentByte(Head(t)) THEN read_identifier(Tail(t), acc \o Head(t))
    ELSE [s |-> acc, rest |-> t]

DigitValue(c) == CHOOSE d \in 0..9 : Digit(d) = c

\* one or more decimal digits: [n, rest]
RECURSIVE read_digits(_, _)
read_digits(t, acc) ==
    IF t # "" /\ IsDigit(Head(t)) THEN read_digits(Tail(t), 10 * acc + DigitValue(Head(t)))
    ELSE [n |-> acc, rest |-> t]

\* optional -, digits (the model's numbers have no fraction)
parse_number(t) ==
    IF Head(t) = "-"
    THEN LET d == read_digits(Tail(t), 0) IN ParseOk(NumE(0 - d.n), d.rest)
    ELSE LET d == read_digits(t, 0) IN ParseOk(NumE(d.n), d.rest)

\* the text after the opening quote, up to the closing one
RECURSIVE parse_string(_, _)
parse_string(t, acc) ==
    IF t = "" THEN ParseErr
    ELSE IF Head(t) = "\"" THEN ParseOk(StrE(acc), Tail(t))
    ELSE IF Head(t) = "\\"
    THEN IF Len(t) < 2 THEN ParseErr
         ELSE LET c == Head(Tail(t))
                  rest == Tail(Tail(t))
              IN CASE c = "n" -> parse_string(rest, acc \o "\n")
                   [] c = "t" -> parse_string(rest, acc \o "\t")
                   [] c = "r" -> parse_string(rest, acc \o "\r")
                   [] c = "\\" -> parse_string(rest, acc \o "\\")
                   [] c = "\"" -> parse_string(rest, acc \o "\"")
                   [] OTHER -> ParseErr
    ELSE parse_string(Tail(t), acc \o Head(t))

\* ' and an identifier; strict: the identifier must not be empty
parse_quoted(t, strict) ==
    LET id == read_identifier(t, "")
    IN IF strict /\ id.s = "" THEN ParseErr ELSE ParseOk(StrE(id.s), id.rest)

\* [A OP B OP C]: Call(OP, A, B, C), every OP the same identifier
InfixCall(items) ==
    LET odd == {i \in 1..Len(items) : i % 2 = 1}
        even == {i \in 1..Len(items) : i % 2 = 0}
    IN IF Len(items) < 3 \/ Len(items) % 2 = 0 THEN <<>>
       ELSE IF \E i \in even : items[i].k # "name" \/ items[i] # items[2] THEN <<>>
       ELSE <<CallE(<<items[2]>> \o [j \in 1..((Len(items) + 1) \div 2) |-> items[2 * j - 1]])>>

RECURSIVE parse(_, _)
RECURSIVE parse_children(_, _, _, _)
RECURSIVE parse_dots(_, _, _)

\* Expression* up to the closing byte: [ok, items, rest]
parse_children(t, close, acc, strict) ==
    LET u == skip_space(t)
    IN IF u = "" THEN [ok |-> FALSE, items |-> <<>>, rest |-> ""]
       ELSE IF Head(u) = close THEN [ok |-> TRUE, items |-> acc, rest |-> Tail(u)]
       ELSE LET r == parse(u, strict)
            IN IF ~r.ok \/ r.eof THEN [ok |-> FALSE, items |-> <<>>, rest |-> ""]
               ELSE parse_children(r.rest, close, Append(acc, r.expr), strict)

\* a.b.c: Call(Call(a, b), c); the atom after a dot is a number or a name
\* taken as a String
parse_dots(e, t, strict) ==
    IF t = "" \/ Head(t) # "." THEN ParseOk(e, t)
    ELSE LET u == Tail(t)
         IN IF u = "" THEN ParseErr
            ELSE IF IsDigit(Head(u))
            THEN LET d == read_digits(u, 0)
                 IN parse_dots(CallE(<<e, NumE(d.n)>>), d.rest, strict)
            ELSE LET id == read_identifier(u, "")
                 IN IF id.s = "" THEN ParseErr
                    ELSE parse_dots(CallE(<<e, StrE(id.s)>>), id.rest, strict)

parse(t, strict) ==
    LET u == skip_space(t)
    IN IF u = "" THEN ParseEof
       ELSE LET c == Head(u)
                v == Tail(u)
            IN CASE c = "(" ->
                      (LET l == parse_children(v, ")", <<>>, strict)
                       IN IF l.ok THEN ParseOk(CallE(l.items), l.rest) ELSE ParseErr)
                 [] c = "{" ->
                      (LET l == parse_children(v, "}", <<>>, strict)
                       IN IF l.ok THEN ParseOk(QuoteE(l.items), l.rest) ELSE ParseErr)
                 [] c = "[" ->
                      (LET l == parse_children(v, "]", <<>>, strict)
                       IN IF l.ok /\ InfixCall(l.items) # <<>>
                          THEN ParseOk(InfixCall(l.items)[1], l.rest) ELSE ParseErr)
                 [] c = "\"" -> parse_string(v, "")
                 [] c = "'" -> parse_quoted(v, strict)
                 [] IsDigit(c) \/ (c = "-" /\ v # "" /\ IsDigit(Head(v))) -> parse_number(u)
                 [] IsIdentByte(c) ->
                      (LET id == read_identifier(u, "")
                       IN parse_dots(NameE(id.s), id.rest, strict))
                 [] OTHER -> ParseErr

(***************************************************************************)
(* Display and parse again: expressions parsed from source text.           *)
(***************************************************************************)
SourceTexts ==
    {"x", "-12", "7 ; seven", "\"a b\"", "'ab", "\"a\\nb\"", "\"q\\\"\"", "()",
     "(f 1 \"s\")", "(f (g -1) 'y)", "[a + b + 1]", "d.a", "l.0.b",
     "{}", "{1}", "(if c {x} {(f 'y)})"}

\* parse::parse on a source text
ParseText ==
    /\ status = "running"
    /\ Len(trail) < MaxParseSteps
    /\ \E text \in SourceTexts, strict \in BOOLEAN :
          LET r == parse(text, strict)
          IN /\ r.ok /\ ~r.eof
             /\ Parse(r.expr, "text", [text |-> text, strict |-> strict])

\* the expression is displayed and the text displayed is parsed
Reparse ==
    /\ status = "running"
    /\ pending.tag = "text"
    /\ LET shown == Expression_display(pending.expr)
           r == parse(shown, pending.arg.strict)
       IN /\ last' = [tag |-> "reparse",
                      arg |-> [text |-> pending.arg.text, strict |-> pending.arg.strict,
                               shown |-> shown, rest |-> r.rest],
                      expr |-> pending.expr, ok |-> r.ok /\ ~r.eof, panic |-> FALSE,
                      val |-> r.expr, trace |-> <<>>, pre |-> mem, precur |-> cur]
          /\ trail' = Append(trail, <<"reparse", StrV(pending.arg.text), r.ok /\ ~r.eof, NoneV>>)
    /\ pending' = NoPending
    /\ UNCHANGED <<mem, cur, status, print_ast>>

NextParse == ParseText \/ Reparse

SpecParse == Init /\ [][NextParse]_vars

\* the text displayed parses to the expression displayed, and to no more
RoundTrips ==
    /\ last.ok
    /\ last.val = last.expr
    /\ skip_space(last.arg.rest) = ""

\* C22 as stated: for every Expression E the parser produces, parsing the
\* display form of E yields E.
C22_Original == last.tag = "reparse" => RoundTrips

RECURSIVE HasQuote(_)
HasQuote(e) ==
    \/ e.k = "quote"
    \/ e.k = "call" /\ \E i \in 1..Len(e.ch) : HasQuote(e.ch[i])

RECURSIVE HasQuoteByte(_)
HasQuoteByte(e) ==
    \/ e.k = "str" /\ \E i \in 1..Len(e.s) : SubSeq(e.s, i, i) \in {"\"", "\\"}
    \/ e.k = "call" /\ \E i \in 1..Len(e.ch) : HasQuoteByte(e.ch[i])

\* C22 without blocks: an Expression that holds no Quote (and no String with
\* a double quote or a backslash in it) comes back from its display form;
\* one that holds a Quote never does.
C22_RoundTripAtoms ==
    last.tag = "reparse" =>
        /\ (~HasQuote(last.expr) /\ ~HasQuoteByte(last.expr)) => RoundTrips
        /\ HasQuote(last.expr) => ~RoundTrips

\* {1} was displayed as '(1), which does not parse to a block
C22_BlockShown ==
    /\ last.tag = "reparse"
    /\ last.arg.text = "{1}"
    /\ last.arg.shown = "'(1)"
    /\ ~RoundTrips

(***************************************************************************)
(* The mutating operators on a container nobody else holds (written out in *)
(* place) and on one a name holds.                                         *)
(***************************************************************************)
NestedList == App("list", <<App("list", <<NumE(1)>>), App("list", <<NumE(2)>>)>>)
NestedDict == App("dict", <<StrE("a"), App("list", <<NumE(1)>>)>>)

\* (def 'l (list 1 2 3) 'd (dict 'a 1 'b 2)
\*      'll (list (list 1) (list 2)) 'dl (dict 'a (list 1)))
DefNested ==
    /\ status = "running"
    /\ Parse(App("def", <<StrE("l"), List123,
                          StrE("d"), App("dict", <<StrE("a"), NumE(1), StrE("b"), NumE(2)>>),
                          StrE("ll"), NestedList, StrE("dl"), NestedDict>>),
             "defnested", NoneV)

PushElem == App("lambda", <<StrE("x"), StrE("i"),
                            QuoteE(<<App("list-push", <<NameE("x"), NumE(9)>>)>>)>>)

RefOps ==
    {"push", "pop", "insert", "insertend", "remove", "removerange", "removepast", "map",
     "mapneg", "mapone", "mapnested", "dictset", "dictmutate", "dictmutatez", "dictmutatenested"}

\* the name that holds the container and the container written out
RefName(op) ==
    CASE op = "mapnested" -> "ll"
      [] op = "dictmutatenested" -> "dl"
      [] op \in {"dictset", "dictmutate", "dictmutatez"} -> "d"
      [] OTHER -> "l"

RefLiteral(op) ==
    CASE op = "mapnested" -> NestedList
      [] op = "dictmutatenested" -> NestedDict
      [] op \in {"dictset", "dictmutate", "dictmutatez"} -> DictAB
      [] OTHER -> List123

\* the operator applied to the container c
RefForm(op, c) ==
    CASE op = "push" -> App("list-push", <<c, NumE(4), NumE(5)>>)
      [] op = "pop" -> App("list-pop", <<c>>)
      [] op = "insert" -> App("list-insert", <<c, NumE(1), NumE(7)>>)
      [] op = "insertend" -> App("list-insert", <<c, NumE(3), NumE(7)>>)
      [] op = "remove" -> App("list-remove", <<c, NumE(1)>>)
      [] op = "removerange" -> App("list-remove", <<c, NumE(0), NumE(2)>>)
      [] op = "removepast" -> App("list-remove", <<c, NumE(1), NumE(4)>>)
      [] op = "map" -> App("list-map", <<c, Times10>>)
      [] op = "mapneg" -> App("list-map", <<c, NameE("-")>>)
      [] op = "mapone" -> App("list-map", <<c, MapTransform("one")>>)
      [] op = "mapnested" -> App("list-map", <<c, PushElem>>)
      [] op = "dictset" -> App("dict-set", <<c, StrE("a"), NumE(5), StrE("c"), NumE(6)>>)
      [] op = "dictmutate" -> App("dict-mutate", <<c, StrE("a"), NameE("+"), NumE(5)>>)
      [] op = "dictmutatez" -> App("dict-mutate", <<c, StrE("z"), NameE("+"), NumE(5)>>)
      [] OTHER -> App("dict-mutate", <<c, StrE("a"), NameE("list-push"), NumE(9)>>)

RefProgram(op, shared) == RefForm(op, IF shared THEN NameE(RefName(op)) ELSE RefLiteral(op))

RefOp ==
    /\ status = "running"
    /\ Cardinality({i \in 1..Len(trail) : trail[i][1] = "refop"}) < MaxRefSteps
    /\ \E op \in RefOps, shared \in BOOLEAN :
          Parse(RefProgram(op, shared), "refop", [op |-> op, shared |-> shared])

NextRefcount == DefNested \/ RefOp \/ Eval

SpecRefcount == Init /\ [][NextRefcount]_vars

\* the operator has run and the name of its container is bound
RefApplies ==
    /\ last.tag = "refop"
    /\ Scope_lookup(last.pre, last.precur, RefName(last.arg.op)).found

\* the same operator from the same state, on the container held the other way
RefOther == eval(RefProgram(last.arg.op, ~last.arg.shared), last.precur, last.pre)

\* C23: a mutating operator applied to a container written out in place
\* (held by nobody else: the in-place branch) and to the same container
\* held by a name (the clone branch) ends the same way: both succeed with
\* containers of the same contents, or both fail with the same error, or
\* both abort; the output is the same.  Only the handle differs: in place
\* the handle returned is the one passed in, on a held container it is a
\* new one and the cell the name holds is unchanged.
C23_SameContents ==
    RefApplies =>
        LET o == RefOther
            held == Scope_lookup(last.pre, last.precur, RefName(last.arg.op)).val
            made == eval(RefLiteral(last.arg.op), last.precur, last.pre).val
        IN /\ last.ok = o.ok
           /\ last.panic = o.panic
           /\ mem.out = o.m.out
           /\ IF last.ok
              THEN /\ Deep(mem, last.val) = Deep(o.m, o.val)
                   /\ IF last.arg.shared
                      THEN /\ last.val.h # held.h
                           /\ mem.heap[held.h] = last.pre.heap[held.h]
                           /\ o.val.h = made.h
                      ELSE /\ last.val.h = made.h
                           /\ o.val.h # held.h
              ELSE last.val = o.val

\* list-map with a callback that pushes to each element, on the nested list
\* written out: the elements were pushed to
C23_Witness ==
    /\ RefApplies
    /\ last.arg = [op |-> "mapnested", shared |-> FALSE]
    /\ last.ok
    /\ Deep(mem, last.val) =
          [t |-> "list",
           items |-> <<[t |-> "list", items |-> <<NumV(1), NumV(9)>>],
                       [t |-> "list", items |-> <<NumV(2), NumV(9)>>]>>]
    /\ Deep(mem, Scope_lookup(mem, cur, "ll").val) =
          [t |-> "list",
           items |-> <<[t |-> "list", items |-> <<NumV(1)>>],
                       [t |-> "list", items |-> <<NumV(2)>>]>>]

(***************************************************************************)
(* mutate and the frame that binds the name.                               *)
(***************************************************************************)
OwnPlaces == {"top", "child", "childown"}
OwnCallees == {"add", "probe"}

\* add:   + 1
\* probe: (lambda 'v {(try {(print x)} (lambda 'e {(print "unbound")})) [v + 1]}),
\*        which writes what x reads as while the callable runs
OwnCallee(callee) ==
    IF callee = "add" THEN <<NameE("+"), NumE(1)>>
    ELSE <<App("lambda",
               <<StrE("v"),
                 QuoteE(<<App("try", <<QuoteE(<<App("print", <<NameE("x")>>)>>),
                                       App("lambda", <<StrE("e"),
                                                       QuoteE(<<App("print", <<StrE("unbound")>>)>>)>>)>>),
                          App("+", <<NameE("v"), NumE(1)>>)>>)>>)>>

OwnMutate(callee) == App("mutate", <<StrE("x")>> \o OwnCallee(callee))

\* top:      (mutate 'x f) at the top level
\* child:    ((lambda {(mutate 'x f)})), x bound at most in an ancestor
\* childown: ((lambda {(def 'x 7) (list (mutate 'x f) x)}))
OwnProgram(place, callee) ==
    CASE place = "top" -> OwnMutate(callee)
      [] place = "child" -> CallE(<<App("lambda", <<QuoteE(<<OwnMutate(callee)>>)>>)>>)
      [] OTHER ->
            CallE(<<App("lambda",
                        <<QuoteE(<<App("def", <<StrE("x"), NumE(7)>>),
                                   App("list", <<OwnMutate(callee), NameE("x")>>)>>)>>)>>)

MutateAt ==
    /\ status = "running"
    /\ \E place \in OwnPlaces, callee \in OwnCallees :
          Parse(OwnProgram(place, callee), "own", [place |-> place, callee |-> callee])

NextOwner == DefX \/ MutateAt \/ Eval

SpecOwner == Init /\ [][NextOwner]_vars

\* x is bound in the top-level frame before the step
TopHasX == "x" \in DOMAIN last.pre.frames[TopScope].map

TopX == last.pre.frames[TopScope].map["x"]

OwnFails ==
    /\ ~last.ok /\ ~last.panic
    /\ last.val = StackTrace_from_str("Variable 'x' doesn't exist in this scope")
    /\ FramesKept
    /\ Written = <<>>

\* C24 as stated: a mutate of a name bound in the current frame or in an
\* ancestor succeeds and binds the result in the frame that bound the name.
C24_Original ==
    (last.tag = "own" /\ last.arg.place # "childown" /\ TopHasX) =>
        /\ last.ok
        /\ OnlyRebound(TopScope, "x", NumV(TopX.n + 1))

\* C24, amended: mutate operates on the current frame only.  A name bound
\* there is not bound there while the callable runs (a callable that reads
\* the name finds the binding of an ancestor, or none), and after the call
\* the result is bound in the current frame and no other frame has changed;
\* a name bound only in an ancestor, or nowhere, makes mutate fail with
\* "Variable '<name>' doesn't exist in this scope" before the callable is
\* called, and nothing changes.
C24_MutateCurrentFrame ==
    last.tag = "own" =>
        CASE last.arg.place = "top" ->
                IF TopHasX
                THEN /\ last.ok /\ last.val = NumV(TopX.n + 1)
                     /\ OnlyRebound(TopScope, "x", NumV(TopX.n + 1))
                     /\ Written = IF last.arg.callee = "probe" THEN Line("unbound") ELSE <<>>
                ELSE OwnFails
          [] last.arg.place = "child" -> OwnFails
          [] OTHER ->
                /\ last.ok
                /\ Deep(mem, last.val) = [t |-> "list", items |-> <<NumV(8), NumV(8)>>]
                /\ FramesKept
                /\ Written = IF last.arg.callee = "add" THEN <<>>
                             ELSE IF TopHasX THEN Line(NumToStr(TopX.n))
                             ELSE Line("unbound")

\* in the frame of a call that binds x to 7 over the top level's 10, the
\* callable has read 10 for x and the call has bound 8
C24_Witness ==
    /\ last.tag = "own" /\ last.ok
    /\ last.arg = [place |-> "childown", callee |-> "probe"]
    /\ TopHasX /\ TopX = NumV(10)
    /\ Written = Line("10")
    /\ mem.frames[TopScope].map["x"] = NumV(10)

(***************************************************************************)
(* Calling a Block.                                                        *)
(***************************************************************************)
BlockVias == {"direct", "if", "else"}
BlockBodies == {"empty", "def"}

\* {} and {(print "a") (def 'y 5) (print "b") [y + 1]}
BlockBody(body) ==
    IF body = "empty" THEN QuoteE(<<>>)
    ELSE QuoteE(<<App("print", <<StrE("a")>>),
                  App("def", <<StrE("y"), NumE(5)>>),
                  App("print", <<StrE("b")>>),
                  App("+", <<NameE("y"), NumE(1)>>)>>)

\* ({...}), (if true {...}) and (if false {99} {...})
BlockCall(via, body) ==
    CASE via = "direct" -> CallE(<<BlockBody(body)>>)
      [] via = "if" -> App("if", <<NameE("true"), BlockBody(body)>>)
      [] OTHER -> App("if", <<NameE("false"), QuoteE(<<NumE(99)>>), BlockBody(body)>>)

\* at the top level, or ((lambda {(list call (try {y} (lambda 'e {"unbound"})))})),
\* where the caller of the block is the frame of the lambda's call
BlockProgram(via, body, nested) ==
    IF nested
    THEN CallE(<<App("lambda",
                     <<QuoteE(<<App("list",
                                    <<BlockCall(via, body),
                                      App("try", <<QuoteE(<<NameE("y")>>),
                                                   App("lambda", <<StrE("e"),
                                                                   QuoteE(<<StrE("unbound")>>)>>)>>)>>)>>)>>)>>)
    ELSE BlockCall(via, body)

CallBlock ==
    /\ status = "running"
    /\ Len(trail) < MaxBlockSteps
    /\ \E via \in BlockVias, body \in BlockBodies, nested \in BOOLEAN :
          Parse(BlockProgram(via, body, nested), "block",
                [via |-> via, body |-> body, nested |-> nested])

NextBlock == CallBlock \/ Eval

SpecBlock == Init /\ [][NextBlock]_vars

\* what y reads as at the top level before the step
TopY == Scope_lookup(last.pre, TopScope, "y")

\* C25: a Block is called in the caller's scope.  Called directly or through
\* if, {(print "a") (def 'y 5) (print "b") [y + 1]} writes a then b, yields
\* 6 and leaves y bound to 5 in the frame of the caller (the top-level
\* frame, or the frame of the lambda's call, where y then reads 5 and the
\* frames that existed are as before); {} yields none and changes nothing.
C25_BlockInCallerScope ==
    last.tag = "block" =>
        /\ last.ok
        /\ cur = last.precur
        /\ IF last.arg.body = "empty"
           THEN /\ Written = <<>>
                /\ FramesKept
                /\ IF last.arg.nested
                   THEN Deep(mem, last.val) =
                            [t |-> "list",
                             items |-> <<NoneV, IF TopY.found THEN TopY.val ELSE StrV("unbound")>>]
                   ELSE last.val = NoneV
           ELSE /\ Written = Line("a") \o Line("b")
                /\ IF last.arg.nested
                   THEN /\ FramesKept
                        /\ Deep(mem, last.val) = [t |-> "list", items |-> <<NumV(6), NumV(5)>>]
                   ELSE /\ last.val = NumV(6)
                        /\ OnlyRebound(TopScope, "y", NumV(5))

\* (if false {99} {... (def 'y 5) ...}) at the top level, y unbound before,
\* has left y bound to 5 in the top-level frame
C25_Witness ==
    /\ last.tag = "block" /\ last.ok
    /\ last.arg = [via |-> "else", body |-> "def", nested |-> FALSE]
    /\ ~TopY.found
    /\ mem.frames[TopScope].map["y"] = NumV(5)
    /\ last.val = NumV(6)

(***************************************************************************)
(* A callable that fails under mutate, inside try.                         *)
(***************************************************************************)
FailKinds == {"getter", "payload", "after"}

GetX == App("lambda", <<QuoteE(<<NameE("x")>>)>>)

\* the body of the try: x is bound to 7 in the frame of the body
\* getter:  (def 'x 7) (def 'get (lambda {x})) (mutate 'x (lambda 'v {(error get)}))
\* payload: (def 'x 7) (mutate 'x (lambda 'v {(error (lambda {x}))}))
\* after:   (def 'x 7) (def 'get (lambda {x})) (mutate 'x + 1) (error get)
FailBody(kind) ==
    CASE kind = "getter" ->
            <<App("def", <<StrE("x"), NumE(7)>>),
              App("def", <<StrE("get"), GetX>>),
              App("mutate", <<StrE("x"),
                              App("lambda", <<StrE("v"),
                                              QuoteE(<<App("error", <<NameE("get")>>)>>)>>)>>)>>
      [] kind = "payload" ->
            <<App("def", <<StrE("x"), NumE(7)>>),
              App("mutate", <<StrE("x"),
                              App("lambda", <<StrE("v"),
                                              QuoteE(<<App("error", <<GetX>>)>>)>>)>>)>>
      [] OTHER ->
            <<App("def", <<StrE("x"), NumE(7)>>),
              App("def", <<StrE("get"), GetX>>),
              App("mutate", <<StrE("x"), NameE("+"), NumE(1)>>),
              App("error", <<NameE("get")>>)>>

\* (try {body} (lambda 'e {(e)})): the catch calls the lambda the error
\* carries, which reads x from the frame of the body
FailProgram(kind) ==
    App("try", <<QuoteE(FailBody(kind)),
                 App("lambda", <<StrE("e"), QuoteE(<<CallE(<<NameE("e")>>)>>)>>)>>)

MutateFail ==
    /\ status = "running"
    /\ \E kind \in FailKinds : Parse(FailProgram(kind), "mutfail", kind)

NextFail == DefX \/ MutateFail \/ Eval

SpecFail == Init /\ [][NextFail]_vars

\* C26: after the callable of (mutate 'x f) has failed and a try has caught
\* the error, x reads in its frame as it did before the mutate, 7; after a
\* mutate that succeeded it reads as the result, 8.
C26_Original ==
    last.tag = "mutfail" =>
        /\ last.ok
        /\ last.val = IF last.arg = "after" THEN NumV(8) ELSE NumV(7)

\* the same for the mutate that succeeds only
C26_AfterSuccess ==
    (last.tag = "mutfail" /\ last.arg = "after") => (last.ok /\ last.val = NumV(8))

\* the callable has failed, the try has caught it, and x is bound nowhere:
\* the catch fails with "Variable 'x' doesn't exist"
C26_Lost ==
    /\ last.tag = "mutfail" /\ last.arg = "getter"
    /\ ~Scope_lookup(last.pre, last.precur, "x").found
    /\ ~last.ok /\ ~last.panic
    /\ last.val = ErrNoVariable("x")

\* the same with x bound to 50 at the top level: x reads 50, not 7
C26_Shadowed ==
    /\ last.tag = "mutfail" /\ last.arg = "payload"
    /\ Scope_lookup(last.pre, last.precur, "x").val = NumV(50)
    /\ last.ok /\ last.val = NumV(50)

(***************************************************************************)
(* list-remove under try.                                                  *)
(***************************************************************************)
\* the list-remove expressions under try evaluated so far
Guarded == Cardinality({i \in 1..Len(trail) : trail[i][1] = "tryremove"})

\* (try {(list-remove l idx end)} (lambda 'e {e}))
TryRemove ==
    /\ status = "running"
    /\ Guarded < MaxSpliceSteps
    /\ \E idx \in SpliceIndexes, end \in RemoveEnds, inline \in BOOLEAN :
          Parse(App("try",
                    <<QuoteE(<<App("list-remove", <<SpliceOn(inline), NumE(idx)>> \o NumEs(end))>>),
                      App("lambda", <<StrE("e"), QuoteE(<<NameE("e")>>)>>)>>),
                "tryremove", [idx |-> idx, end |-> end, inline |-> inline])

NextGuard == DefL \/ TryRemove \/ Eval

SpecGuard == Init /\ [][NextGuard]_vars

\* C27: list-remove never stops the evaluator.  Under a try whose catch
\* returns the error, (list-remove l idx end) yields a list or the text of
\* an error, for every idx and end, and the run goes on.
C27_NeverAborts ==
    last.tag = "tryremove" =>
        /\ ~last.panic
        /\ status = "running"
        /\ last.ok
        /\ last.val.t \in {"list", "str"}

\* list-remove whose range lies inside the list, or whose idx is past the
\* end, does as C27 says
C27_InRange ==
    (/\ last.tag = "tryremove"
     /\ \/ last.arg.idx >= 3
        \/ last.arg.end = <<>>
        \/ (last.arg.idx <= last.arg.end[1] /\ last.arg.end[1] <= 3)) =>
        /\ ~last.panic
        /\ status = "running"
        /\ last.ok
        /\ last.val.t \in {"list", "str"}

\* (try {(list-remove (list 1 2 3) 2 1)} ...): the range is reversed, the
\* process has aborted and the catch was never called
C27_Aborted ==
    /\ last.tag = "tryremove"
    /\ last.arg = [idx |-> 2, end |-> <<1>>, inline |-> TRUE]
    /\ last.panic
    /\ status = "aborted"

(***************************************************************************)
(* The payload of error.                                                   *)
(***************************************************************************)
ErrorAtoms == {"seven", "text", "empty", "list", "none"}

\* the argument lists: every one of up to two atoms, and three of three
ErrorArgLists ==
    {<<>>} \cup {<<a>> : a \in ErrorAtoms} \cup {<<a, b>> : a, b \in ErrorAtoms}
    \cup {<<"text", "seven", "text">>, <<"list", "none", "empty">>, <<"empty", "empty", "seven">>}

AtomExpr(a) ==
    CASE a = "seven" -> NumE(7)
      [] a = "text" -> StrE("a b")
      [] a = "empty" -> StrE("")
      [] a = "list" -> App("list", <<NumE(1), NumE(2)>>)
      [] OTHER -> NameE("none")

\* the value of the atom, whatever the handle
AtomValue(a) ==
    CASE a = "seven" -> NumV(7)
      [] a = "text" -> StrV("a b")
      [] a = "empty" -> StrV("")
      [] a = "list" -> [t |-> "list", items |-> <<NumV(1), NumV(2)>>]
      [] OTHER -> NoneV

\* the bytes of a String, the Display form of any other value
AtomShown(a) ==
    CASE a = "seven" -> "7"
      [] a = "text" -> "a b"
      [] a = "empty" -> ""
      [] a = "list" -> "[1, 2]"
      [] OTHER -> "None"

RECURSIVE SpaceJoined(_)
SpaceJoined(atoms) ==
    IF Len(atoms) = 1 THEN AtomShown(atoms[1])
    ELSE AtomShown(atoms[1]) \o " " \o SpaceJoined(Tail(atoms))

ErrorCall(atoms) == App("error", [i \in 1..Len(atoms) |-> AtomExpr(atoms[i])])

\* (error a..) at the top level, or (try {(error a..)} (lambda 'e {e}))
RaiseError ==
    /\ status = "running"
    /\ Len(trail) < MaxErrorSteps
    /\ \E atoms \in ErrorArgLists, caught \in BOOLEAN :
          Parse(IF caught
                THEN App("try", <<QuoteE(<<ErrorCall(atoms)>>),
                                  App("lambda", <<StrE("e"), QuoteE(<<NameE("e")>>)>>)>>)
                ELSE ErrorCall(atoms),
                "payload", [atoms |-> atoms, caught |-> caught])

NextError == RaiseError \/ Eval

SpecError == Init /\ [][NextError]_vars

\* C28: the payload of (error a..), as the error that ends the run carries
\* it and as the catch of a try receives it, is none for no argument, the
\* argument itself for one argument (a number, a list, none: not its text),
\* and for two or more the String of the arguments' bytes or Display forms
\* with one space between each two, in order.
C28_ErrorPayload ==
    last.tag = "payload" =>
        /\ ~last.panic
        /\ last.ok = last.arg.caught
        /\ status = (IF last.arg.caught THEN "running" ELSE "exited")
        /\ CASE last.arg.atoms = <<>> -> last.val = NoneV
             [] Len(last.arg.atoms) = 1 -> Deep(mem, last.val) = AtomValue(last.arg.atoms[1])
             [] OTHER -> last.val = StrV(SpaceJoined(last.arg.atoms))

\* (error (list 1 2) none "") under try: the catch has received "[1, 2] None "
C28_Witness ==
    /\ last.tag = "payload" /\ last.ok
    /\ last.arg = [atoms |-> <<"list", "none", "empty">>, caught |-> TRUE]
    /\ last.val = StrV("[1, 2] None ")

====
